---------------------------- MODULE Spec2Model ----------------------------
(***************************************************************************)
(* Member <-> Lifegroup relationship maintenance of the attendance-system  *)
(* backend: the members and lifegroups collections, the member request     *)
(* handlers (MemberController.store / update / delete), one step per       *)
(* awaited repository call, and the lifegroup request handlers             *)
(* (LifegroupController.store / update / delete).                          *)
(*                                                                         *)
(* A member document is its first_name, its life_group_id and its          *)
(* deleted_at marker; a lifegroup document is its members list and its     *)
(* deleted_at marker. The other body fields (tribe_id, last_name, ...) are *)
(* taken to be well-formed and play no part in the lifegroup steps.        *)
(* An exception that is no HTTPException leaves the handler uncaught and   *)
(* the request ends with status 500.                                       *)
(*                                                                         *)
(* SpecRepo: the repository classes MemberModel, LifegroupModel and        *)
(* TribeModel called one method at a time on one collection (list, create, *)
(* get_by_id, update, delete, restore) under a clock.                      *)
(* SpecUsers, SpecUsersRace: UserModel and the /users handlers, handled    *)
(* one after the other or two at a time.                                   *)
(* SpecAuth: POST /auth/login, verify_token and GET /auth/profile over the *)
(* users that the /users handlers store.                                   *)
(* SpecRefresh: login and POST /auth/refresh; SpecToken: verify_token on   *)
(* any token; SpecRouting: the routers that routing(app) mounts and the    *)
(* dependencies they carry; SpecMembers: the member handlers one request   *)
(* at a time; SpecPaginate: Helper.paginate; SpecDb: the cached client and *)
(* database handle of config/database.py.                                  *)
(***************************************************************************)
EXTENDS Integers, Sequences, FiniteSets, TLC

\* ------------------------------------------------------------------ bounds
\* member documents that are ever inserted
MaxMembers == 2
\* lifegroup documents that are ever inserted
MaxLifegroups == 2
\* longest members list in the body of a lifegroup request
MaxLen == 2
\* member requests handled at the same time (SpecRace)
MaxInFlight == 2

\* ---------------------------------------------------------------- values
\* Python's None (an Optional request field left out, a find_one with no hit).
None == 0
\* An id string that ObjectId.is_valid rejects.
BadId == -1

MemberIds == 1..MaxMembers
LifegroupIds == 1..MaxLifegroups
Slots == 1..MaxInFlight
Names == {1, 2}
\* members: None of a lifegroup request body or document (a list elsewhere)
NullList == <<None>>

Range(s) == {s[i] : i \in 1..Len(s)}
Count(x, s) == Cardinality({i \in 1..Len(s) : s[i] = x})
\* [member for member in existing_members if member != id]
Without(s, x) == SelectSeq(s, LAMBDA e : e # x)
SeqsUpTo(S, n) == UNION {[1..k -> S] : k \in 0..n}

\* members: Optional[list[PyObjectId]] of LifegroupCreate / LifegroupUpdate
MemberLists == SeqsUpTo(MemberIds, MaxLen)

VARIABLES
    membersColl,     \* the "members" collection: _id -> document
    lifegroupsColl,  \* the "lifregroups" collection: _id -> document
    reqs,            \* the member requests in flight: slot -> handler frame
    entity,          \* the collection a repository object is bound to
    docs,            \* that collection with its timestamps: _id -> document
    now,             \* datetime.now()
    last,            \* the last repository call: its arguments and what it returned
    usersColl,       \* the "users" collection: _id -> document
    ureqs,           \* the user and auth requests in flight: slot -> handler frame
    issued,          \* the token pairs that login and refresh have handed out
    app,             \* the routers that routing(app) has mounted
    client,          \* config/database.py: the cached AsyncIOMotorClient
    db_instance,     \* config/database.py: the cached client[DB_NAME]
    clients,         \* the AsyncIOMotorClient objects constructed so far
    dbreqs           \* the get_db / connect_to_mongo calls in flight

memberVars == <<membersColl, lifegroupsColl, reqs>>
repoVars == <<entity, docs, now, last>>
dbVars == <<client, db_instance, clients, dbreqs>>
appVars == <<app, dbVars>>
userVars == <<usersColl, ureqs, issued, appVars>>
vars == <<membersColl, lifegroupsColl, reqs, entity, docs, now, last,
          usersColl, ureqs, issued, app, client, db_instance, clients, dbreqs>>

\* The parts of the state a specification does not use stay as they are here.
MembersUnused ==
    /\ membersColl = <<>> /\ lifegroupsColl = <<>> /\ reqs = <<>>
RepoUnused ==
    /\ entity = "" /\ docs = <<>> /\ last = <<>>
DbUnused ==
    /\ client = None /\ db_instance = None /\ clients = 0 /\ dbreqs = <<>>
UsersUnused ==
    /\ usersColl = <<>> /\ ureqs = <<>> /\ issued = {} /\ app = {} /\ DbUnused

\* ------------------------------------------------------------ repositories
ObjectId_is_valid(id) == id # BadId

\* MemberCreate(**payload): the request's lifegroup_id is no field of
\* MemberCreate (its field is life_group_id), so pydantic drops it and
\* life_group_id keeps its default None.
MemberCreate(payload) ==
    [first_name |-> payload.first_name, life_group_id |-> None]

\* MemberUpdate(**payload).model_dump(exclude_unset, exclude_none): MemberUpdate
\* has no lifegroup field at all; first_name is kept when it is not None.
MemberUpdate(payload) ==
    IF payload.first_name = None THEN [x \in {} |-> None]
    ELSE [x \in {"first_name"} |-> payload.first_name]

\* _base_query(include_deleted=False): deleted_at is None or missing.
NotDeleted(doc) == ~doc.deleted_at

\* MemberModel.get_by_id: 400 on a malformed id is raised by the caller's step;
\* here the find_one: the document's id, or None.
MemberModel_get_by_id(id, include_deleted) ==
    IF id \in DOMAIN membersColl
         /\ (include_deleted \/ NotDeleted(membersColl[id]))
    THEN id ELSE None

\* get_by_id without the _base_query filter: a soft-deleted lifegroup is found.
LifegroupModel_get_by_id_unfiltered(id, include_deleted) ==
    IF id \in DOMAIN lifegroupsColl THEN id ELSE None

LifegroupModel_get_by_id(id, include_deleted) ==
    IF id \in DOMAIN lifegroupsColl
         /\ (include_deleted \/ NotDeleted(lifegroupsColl[id]))
    THEN id ELSE None

\* MemberModel.create: insert_one under a fresh _id; the collection after it.
FreshMemberId == CHOOSE i \in MemberIds : i \notin DOMAIN membersColl

MemberModel_create(member_data) ==
    [i \in DOMAIN membersColl \cup {FreshMemberId} |->
        IF i = FreshMemberId
        THEN [first_name |-> member_data.first_name,
              life_group_id |-> member_data.life_group_id,
              deleted_at |-> FALSE]
        ELSE membersColl[i]]

\* MemberModel.update: update_one({"_id": id} + _base_query, {"$set": ...});
\* 404 when nothing matched.
MemberModel_update(member_id, update_dict) ==
    IF ~ObjectId_is_valid(member_id)
    THEN [status |-> 400, detail |-> "Invalid ID format", coll |-> membersColl]
    ELSE IF MemberModel_get_by_id(member_id, FALSE) = None
    THEN [status |-> 404, detail |-> "Member not found or is deleted",
          coll |-> membersColl]
    ELSE [status |-> 200, detail |-> "",
          coll |-> IF "first_name" \in DOMAIN update_dict
                   THEN [membersColl EXCEPT
                            ![member_id].first_name = update_dict["first_name"]]
                   ELSE membersColl]

\* MemberModel.delete(hard_delete=False): stamps deleted_at on a document not
\* yet deleted; one already deleted is left as it is and True is returned;
\* 404 only when no document has the id.
MemberModel_delete(member_id) ==
    IF ~ObjectId_is_valid(member_id)
    THEN [status |-> 400, detail |-> "Invalid ID format", coll |-> membersColl]
    ELSE IF MemberModel_get_by_id(member_id, FALSE) # None
    THEN [status |-> 200, detail |-> "",
          coll |-> [membersColl EXCEPT ![member_id].deleted_at = TRUE]]
    ELSE IF MemberModel_get_by_id(member_id, TRUE) # None
    THEN [status |-> 200, detail |-> "", coll |-> membersColl]
    ELSE [status |-> 404, detail |-> "Member not found", coll |-> membersColl]

\* lifegroup.get("members", []) or []
MembersOf(doc) == IF doc.members = NullList THEN <<>> ELSE doc.members

\* The lifegroups that query {"members": member_obj_id} + _base_query matches;
\* find_one returns any one of them, or None when there is none.
LifegroupModel_get_lifegroup_by_member_id(member_id) ==
    LET hits == {g \in DOMAIN lifegroupsColl :
                    /\ NotDeleted(lifegroupsColl[g])
                    /\ member_id \in Range(MembersOf(lifegroupsColl[g]))}
    IN  IF hits = {} THEN {None} ELSE hits

\* update_data as the callers pass it: a LifegroupUpdate (is_schema) or
\* a plain dict {"members": [...]}.
Schema(ms) == [is_schema |-> TRUE, members |-> ms]
Dict(ms) == [is_schema |-> FALSE, members |-> ms]

\* A LifegroupModel.update that takes a plain dict as it takes a
\* LifegroupUpdate.
LifegroupModel_update_any(lifegroup_id, update_data) ==
    IF ~ObjectId_is_valid(lifegroup_id)
    THEN [status |-> 400, detail |-> "Invalid ID format", coll |-> lifegroupsColl]
    ELSE IF LifegroupModel_get_by_id(lifegroup_id, FALSE) = None
    THEN [status |-> 404, detail |-> "Lifegroup not found or is deleted",
          coll |-> lifegroupsColl]
    ELSE [status |-> 200, detail |-> "",
          coll |-> IF update_data.members = NullList THEN lifegroupsColl
                   ELSE [lifegroupsColl EXCEPT
                            ![lifegroup_id].members = update_data.members]]

\* LifegroupModel.update(lifegroup_id, update_data): the response status, and
\* the collection after it. update_data.model_dump(...) is the first use of
\* update_data: a plain dict has no model_dump, an AttributeError that no
\* handler catches (500).
LifegroupModel_update(lifegroup_id, update_data) ==
    IF ~ObjectId_is_valid(lifegroup_id)
    THEN [status |-> 400, detail |-> "Invalid ID format", coll |-> lifegroupsColl]
    ELSE IF ~update_data.is_schema
    THEN [status |-> 500, detail |-> "AttributeError", coll |-> lifegroupsColl]
    ELSE IF LifegroupModel_get_by_id(lifegroup_id, FALSE) = None
    THEN [status |-> 404, detail |-> "Lifegroup not found or is deleted",
          coll |-> lifegroupsColl]
    ELSE [status |-> 200, detail |-> "",
          coll |-> IF update_data.members = NullList THEN lifegroupsColl
                   ELSE [lifegroupsColl EXCEPT
                            ![lifegroup_id].members = update_data.members]]

\* ------------------------------------------------------------------- frames
Idle ==
    [kind |-> "idle", pc |-> "idle", member_id |-> None, first_name |-> None,
     lifegroup_id |-> None, result |-> None, found |-> FALSE,
     existing_members |-> <<>>, old_lg |-> None, old_members |-> <<>>,
     status |-> 0, detail |-> ""]

Frame(kind, pc, member_id, first_name, lifegroup_id) ==
    [Idle EXCEPT !.kind = kind, !.pc = pc, !.member_id = member_id,
                 !.first_name = first_name, !.lifegroup_id = lifegroup_id]

\* return JSONResponse(status_code=...) / except HTTPException / uncaught
Respond(f, status, detail) ==
    [f EXCEPT !.pc = "done", !.status = status, !.detail = detail]

Init ==
    /\ membersColl = [x \in {} |-> None]
    /\ lifegroupsColl = [x \in {} |-> None]
    /\ reqs = [r \in Slots |-> Idle]
    /\ RepoUnused /\ now = 0 /\ UsersUnused

\* ------------------------------------------------------- MemberController
\* A request arrives: the handler frame with its path and body parameters.
\* POST /members: CreateMemberRequest (first_name required, lifegroup_id
\* optional). A store inserts a document, so one starts only while an id of
\* the bounded id space is left for it.
InsertsPending ==
    Cardinality({r \in Slots : reqs[r].kind = "store" /\ reqs[r].pc = "create"})

BeginStore(r) ==
    /\ reqs[r].kind = "idle"
    /\ Cardinality(DOMAIN membersColl) + InsertsPending < MaxMembers
    /\ \E first_name \in Names, lifegroup_id \in LifegroupIds \cup {None, BadId} :
          reqs' = [reqs EXCEPT ![r] =
                      Frame("store", "create", None, first_name, lifegroup_id)]
    /\ UNCHANGED <<membersColl, lifegroupsColl>>

\* result = await MemberModel(db).create(MemberCreate(**payload)): insert_one
\* under a fresh _id, then the read-back.
StoreCreate(r) ==
    /\ reqs[r].kind = "store" /\ reqs[r].pc = "create"
    /\ membersColl' = MemberModel_create(MemberCreate(reqs[r]))
    /\ reqs' = [reqs EXCEPT ![r] =
          IF reqs[r].lifegroup_id # None
          THEN [@ EXCEPT !.result = FreshMemberId, !.pc = "lookup"]
          ELSE Respond([@ EXCEPT !.result = FreshMemberId], 201, "")]
    /\ UNCHANGED lifegroupsColl

\* A store that undoes its member write when the lifegroup step fails.
StoreLookup_rollback(r) ==
    /\ reqs[r].kind = "store" /\ reqs[r].pc = "lookup"
    /\ LET f == reqs[r]
           lifegroup == LifegroupModel_get_by_id(f.lifegroup_id, FALSE)
           failed == ~ObjectId_is_valid(f.lifegroup_id) \/ lifegroup = None
       IN  /\ reqs' = [reqs EXCEPT ![r] =
                 IF ~ObjectId_is_valid(f.lifegroup_id)
                 THEN Respond(f, 400, "Invalid ID format")
                 ELSE IF lifegroup = None
                 THEN Respond(f, 404, "Lifegroup not found")
                 ELSE [f EXCEPT !.found = TRUE, !.pc = "write",
                                !.existing_members =
                                    MembersOf(lifegroupsColl[lifegroup])]]
           /\ membersColl' =
                 IF failed THEN [membersColl EXCEPT ![f.result].deleted_at = TRUE]
                 ELSE membersColl
    /\ UNCHANGED lifegroupsColl

\* lifegroup = await LifegroupModel(db).get_by_id(lifegroup_id); 404 when it
\* is None; existing_members = lifegroup.get("members", []) or []
StoreLookup(r) ==
    /\ reqs[r].kind = "store" /\ reqs[r].pc = "lookup"
    /\ LET f == reqs[r]
           lifegroup == LifegroupModel_get_by_id(f.lifegroup_id, FALSE)
       IN  reqs' = [reqs EXCEPT ![r] =
              IF ~ObjectId_is_valid(f.lifegroup_id)
              THEN Respond(f, 400, "Invalid ID format")
              ELSE IF lifegroup = None
              THEN Respond(f, 404, "Lifegroup not found")
              ELSE [f EXCEPT !.found = TRUE, !.pc = "write",
                             !.existing_members =
                                 MembersOf(lifegroupsColl[lifegroup])]]
    /\ UNCHANGED <<membersColl, lifegroupsColl>>

\* members = [*existing_members, result["_id"]]
\* await LifegroupModel(db).update(payload["lifegroup_id"], {"members": members})
StoreWrite(r) ==
    /\ reqs[r].kind = "store" /\ reqs[r].pc = "write"
    /\ LET f == reqs[r]
           res == LifegroupModel_update(
                      f.lifegroup_id, Dict(Append(f.existing_members, f.result)))
       IN  /\ lifegroupsColl' = res.coll
           /\ reqs' = [reqs EXCEPT ![r] =
                 IF res.status # 200 THEN Respond(f, res.status, res.detail)
                 ELSE Respond(f, 201, "")]
    /\ UNCHANGED membersColl

\* PUT /members/{member_id}: UpdateMemberRequest, every field optional.
BeginUpdate(r) ==
    /\ reqs[r].kind = "idle"
    /\ \E member_id \in MemberIds \cup {BadId}, first_name \in Names \cup {None},
          lifegroup_id \in LifegroupIds \cup {None, BadId} :
          reqs' = [reqs EXCEPT ![r] =
                      Frame("update", "get", member_id, first_name, lifegroup_id)]
    /\ UNCHANGED <<membersColl, lifegroupsColl>>

\* existing_data = await MemberModel(db).get_by_id(member_id); 404 when None
UpdateGet(r) ==
    /\ reqs[r].kind = "update" /\ reqs[r].pc = "get"
    /\ LET f == reqs[r]
       IN  reqs' = [reqs EXCEPT ![r] =
              IF ~ObjectId_is_valid(f.member_id)
              THEN Respond(f, 400, "Invalid ID format")
              ELSE IF MemberModel_get_by_id(f.member_id, FALSE) = None
              THEN Respond(f, 404, "Member not found")
              ELSE [f EXCEPT !.pc = "update"]]
    /\ UNCHANGED <<membersColl, lifegroupsColl>>

\* result = await MemberModel(db).update(member_id, MemberUpdate(**payload))
UpdateMember(r) ==
    /\ reqs[r].kind = "update" /\ reqs[r].pc = "update"
    /\ LET f == reqs[r]
           res == MemberModel_update(f.member_id, MemberUpdate(f))
       IN  /\ membersColl' = res.coll
           /\ reqs' = [reqs EXCEPT ![r] =
                 IF res.status # 200 THEN Respond(f, res.status, res.detail)
                 ELSE IF f.lifegroup_id # None
                 THEN [f EXCEPT !.result = f.member_id, !.pc = "lookup"]
                 ELSE Respond([f EXCEPT !.result = f.member_id], 200, "")]
    /\ UNCHANGED lifegroupsColl

\* An update that takes the member out of every lifegroup listing it before
\* it looks the target up.
UpdateLookup_remove_first(r) ==
    /\ reqs[r].kind = "update" /\ reqs[r].pc = "lookup"
    /\ LET f == reqs[r]
           lifegroup == LifegroupModel_get_by_id(f.lifegroup_id, FALSE)
       IN  /\ lifegroupsColl' =
                 [g \in DOMAIN lifegroupsColl |->
                     IF lifegroupsColl[g].members = NullList THEN lifegroupsColl[g]
                     ELSE [lifegroupsColl[g] EXCEPT
                              !.members = Without(@, f.member_id)]]
           /\ reqs' = [reqs EXCEPT ![r] =
                 IF ~ObjectId_is_valid(f.lifegroup_id)
                 THEN Respond(f, 400, "Invalid ID format")
                 ELSE IF lifegroup = None
                 THEN Respond(f, 404, "Lifegroup not found")
                 ELSE [f EXCEPT !.found = TRUE, !.pc = "find_old",
                                !.existing_members =
                                    MembersOf(lifegroupsColl[lifegroup])]]
    /\ UNCHANGED membersColl

\* lifegroup = await LifegroupModel(db).get_by_id(lifegroup_id); 404 when None.
\* The old lifegroup is not touched before this lookup.
UpdateLookup(r) ==
    /\ reqs[r].kind = "update" /\ reqs[r].pc = "lookup"
    /\ LET f == reqs[r]
           lifegroup == LifegroupModel_get_by_id(f.lifegroup_id, FALSE)
       IN  reqs' = [reqs EXCEPT ![r] =
              IF ~ObjectId_is_valid(f.lifegroup_id)
              THEN Respond(f, 400, "Invalid ID format")
              ELSE IF lifegroup = None
              THEN Respond(f, 404, "Lifegroup not found")
              ELSE [f EXCEPT !.found = TRUE, !.pc = "find_old",
                             !.existing_members =
                                 MembersOf(lifegroupsColl[lifegroup])]]
    /\ UNCHANGED <<membersColl, lifegroupsColl>>

\* old_lg = await LifegroupModel(db).get_lifegroup_by_member_id(existing_data["_id"])
UpdateFindOld(r) ==
    /\ reqs[r].kind = "update" /\ reqs[r].pc = "find_old"
    /\ \E old_lg \in LifegroupModel_get_lifegroup_by_member_id(reqs[r].member_id) :
          reqs' = [reqs EXCEPT ![r] =
             IF old_lg # None
             THEN [@ EXCEPT !.old_lg = old_lg, !.pc = "write_old",
                            !.old_members = MembersOf(lifegroupsColl[old_lg])]
             ELSE [@ EXCEPT !.pc = "write_new"]]
    /\ UNCHANGED <<membersColl, lifegroupsColl>>

\* old_lg_members = [member for member in existing_members if member != id]
\* await LifegroupModel(db).update(old_lg["_id"], {"members": old_lg_members})
UpdateWriteOld(r) ==
    /\ reqs[r].kind = "update" /\ reqs[r].pc = "write_old"
    /\ LET f == reqs[r]
           res == LifegroupModel_update(
                      f.old_lg, Dict(Without(f.old_members, f.member_id)))
       IN  /\ lifegroupsColl' = res.coll
           /\ reqs' = [reqs EXCEPT ![r] =
                 IF res.status # 200 THEN Respond(f, res.status, res.detail)
                 ELSE [f EXCEPT !.pc = "write_new"]]
    /\ UNCHANGED membersColl

\* members = [*existing_members, result["_id"]], from the lifegroup document
\* read at the lookup; await LifegroupModel(db).update(lifegroup_id, {...})
UpdateWriteNew(r) ==
    /\ reqs[r].kind = "update" /\ reqs[r].pc = "write_new"
    /\ LET f == reqs[r]
           res == LifegroupModel_update(
                      f.lifegroup_id, Dict(Append(f.existing_members, f.result)))
       IN  /\ lifegroupsColl' = res.coll
           /\ reqs' = [reqs EXCEPT ![r] =
                 IF res.status # 200 THEN Respond(f, res.status, res.detail)
                 ELSE Respond(f, 200, "")]
    /\ UNCHANGED membersColl

\* DELETE /members/{member_id}
BeginDelete(r) ==
    /\ reqs[r].kind = "idle"
    /\ \E member_id \in MemberIds \cup {BadId} :
          reqs' = [reqs EXCEPT ![r] = Frame("delete", "get", member_id, None, None)]
    /\ UNCHANGED <<membersColl, lifegroupsColl>>

\* existing_data = await MemberModel(db).get_by_id(member_id); 404 when None
DeleteGet(r) ==
    /\ reqs[r].kind = "delete" /\ reqs[r].pc = "get"
    /\ LET f == reqs[r]
       IN  reqs' = [reqs EXCEPT ![r] =
              IF ~ObjectId_is_valid(f.member_id)
              THEN Respond(f, 400, "Invalid ID format")
              ELSE IF MemberModel_get_by_id(f.member_id, FALSE) = None
              THEN Respond(f, 404, "Member not found")
              ELSE [f EXCEPT !.pc = "find_old"]]
    /\ UNCHANGED <<membersColl, lifegroupsColl>>

\* old_lg = await LifegroupModel(db).get_lifegroup_by_member_id(existing_data["_id"])
DeleteFindOld(r) ==
    /\ reqs[r].kind = "delete" /\ reqs[r].pc = "find_old"
    /\ \E old_lg \in LifegroupModel_get_lifegroup_by_member_id(reqs[r].member_id) :
          reqs' = [reqs EXCEPT ![r] =
             IF old_lg # None
             THEN [@ EXCEPT !.old_lg = old_lg, !.pc = "write_old",
                            !.old_members = MembersOf(lifegroupsColl[old_lg])]
             ELSE [@ EXCEPT !.pc = "delete"]]
    /\ UNCHANGED <<membersColl, lifegroupsColl>>

\* await LifegroupModel(db).update(old_lg["_id"], {"members": old_lg_members})
DeleteWriteOld(r) ==
    /\ reqs[r].kind = "delete" /\ reqs[r].pc = "write_old"
    /\ LET f == reqs[r]
           res == LifegroupModel_update(
                      f.old_lg, Dict(Without(f.old_members, f.member_id)))
       IN  /\ lifegroupsColl' = res.coll
           /\ reqs' = [reqs EXCEPT ![r] =
                 IF res.status # 200 THEN Respond(f, res.status, res.detail)
                 ELSE [f EXCEPT !.pc = "delete"]]
    /\ UNCHANGED membersColl

\* await MemberModel(db).delete(member_id); 204
DeleteMember(r) ==
    /\ reqs[r].kind = "delete" /\ reqs[r].pc = "delete"
    /\ LET f == reqs[r]
           res == MemberModel_delete(f.member_id)
       IN  /\ membersColl' = res.coll
           /\ reqs' = [reqs EXCEPT ![r] =
                 IF res.status # 200 THEN Respond(f, res.status, res.detail)
                 ELSE Respond(f, 204, "")]
    /\ UNCHANGED lifegroupsColl

\* The response is sent and the handler frame is gone.
Reply(r) ==
    /\ reqs[r].pc = "done"
    /\ reqs' = [reqs EXCEPT ![r] = Idle]
    /\ UNCHANGED <<membersColl, lifegroupsColl>>

\* ---------------------------------------------------- LifegroupController
\* Each lifegroup handler writes the collection once, under the filter of its
\* own update_one, so it is one step. A request that is rejected (400, 404)
\* changes nothing and is a stuttering step.

\* POST /lifegroups: LifegroupModel.create(request), members as the body gives
\* them (any list of well-formed ids, or None).
LifegroupController_store ==
    /\ Cardinality(DOMAIN lifegroupsColl) < MaxLifegroups
    /\ \E members \in MemberLists \cup {NullList} :
          LET id == CHOOSE i \in LifegroupIds : i \notin DOMAIN lifegroupsColl
          IN  lifegroupsColl' =
                 [i \in DOMAIN lifegroupsColl \cup {id} |->
                     IF i = id THEN [members |-> members, deleted_at |-> FALSE]
                     ELSE lifegroupsColl[i]]
    /\ UNCHANGED <<membersColl, reqs>>

\* PUT /lifegroups/{id}: get_by_id (404 when None), then
\* LifegroupModel.update(lifegroup_id, request) with request a LifegroupUpdate.
LifegroupController_update ==
    /\ \E lifegroup_id \in LifegroupIds, members \in MemberLists \cup {NullList} :
          /\ LifegroupModel_get_by_id(lifegroup_id, FALSE) # None
          /\ LET res == LifegroupModel_update(lifegroup_id, Schema(members))
             IN  /\ res.status = 200
                 /\ lifegroupsColl' = res.coll
    /\ UNCHANGED <<membersColl, reqs>>

\* DELETE /lifegroups/{id}: get_by_id (404 when None), then
\* LifegroupModel.delete(lifegroup_id): the soft delete stamps deleted_at.
LifegroupController_delete ==
    /\ \E lifegroup_id \in LifegroupIds :
          /\ LifegroupModel_get_by_id(lifegroup_id, FALSE) # None
          /\ lifegroupsColl' =
                [lifegroupsColl EXCEPT ![lifegroup_id].deleted_at = TRUE]
    /\ UNCHANGED <<membersColl, reqs>>

\* ------------------------------------------------------------ specifications
MemberStep(r) ==
    \/ BeginStore(r) \/ StoreCreate(r) \/ StoreLookup(r) \/ StoreWrite(r)
    \/ BeginUpdate(r) \/ UpdateGet(r) \/ UpdateMember(r) \/ UpdateLookup(r)
    \/ UpdateFindOld(r) \/ UpdateWriteOld(r) \/ UpdateWriteNew(r)
    \/ BeginDelete(r) \/ DeleteGet(r) \/ DeleteFindOld(r) \/ DeleteWriteOld(r)
    \/ DeleteMember(r)
    \/ Reply(r)

LifegroupStep ==
    \/ LifegroupController_store
    \/ LifegroupController_update
    \/ LifegroupController_delete

AllIdle == \A r \in Slots : reqs[r].kind = "idle"

\* Requests are handled one after the other: each runs to its response before
\* the next one starts.
Next ==
    \/ (MemberStep(1) /\ UNCHANGED <<repoVars, userVars>>)
    \/ (AllIdle /\ LifegroupController_store /\ UNCHANGED <<repoVars, userVars>>)
    \/ (AllIdle /\ LifegroupController_update /\ UNCHANGED <<repoVars, userVars>>)
    \/ (AllIdle /\ LifegroupController_delete /\ UNCHANGED <<repoVars, userVars>>)

Spec == Init /\ [][Next]_vars

\* Two member create/update requests are handled concurrently: the event loop
\* runs any handler that is at an await. The database is as earlier requests
\* leave it: two lifegroups, and either no member yet, or one member that the
\* second lifegroup lists (POST /members, then POST /lifegroups with its id).
InitRace ==
    \E listed \in BOOLEAN :
        /\ membersColl =
              [i \in (IF listed THEN {1} ELSE {}) |->
                  [first_name |-> 1, life_group_id |-> None, deleted_at |-> FALSE]]
        /\ lifegroupsColl =
              [g \in {1, 2} |->
                  [members |-> IF listed /\ g = 2 THEN <<1>> ELSE <<>>,
                   deleted_at |-> FALSE]]
        /\ reqs = [r \in Slots |-> Idle]
        /\ RepoUnused /\ now = 0 /\ UsersUnused

RaceStep(r) ==
    \/ BeginStore(r) \/ StoreCreate(r) \/ StoreLookup(r) \/ StoreWrite(r)
    \/ BeginUpdate(r) \/ UpdateGet(r) \/ UpdateMember(r) \/ UpdateLookup(r)
    \/ UpdateFindOld(r) \/ UpdateWriteOld(r) \/ UpdateWriteNew(r)
    \/ Reply(r)

NextRace == \E r \in Slots : RaceStep(r) /\ UNCHANGED <<repoVars, userVars>>

SpecRace == InitRace /\ [][NextRace]_vars

\* Member requests alone, one after the other, on the same database.
NextMembers == MemberStep(1) /\ UNCHANGED <<repoVars, userVars>>

SpecMembers == InitRace /\ [][NextMembers]_vars

\* ------------------------------------------------- soft-delete repositories
\* MemberModel, LifegroupModel and TribeModel as the classes are written: the
\* queries they build, the $set documents they send and what they return. A
\* document is a function from its keys to their values; a key it lacks is
\* not in its domain. Two text fields stand for the searched ones (name and
\* description; first_name and address of a member).

\* documents a collection ever holds
MaxDocs == 2
\* repository calls that write, one clock tick each
MaxClock == 4

DocIds == 1..MaxDocs
\* the collection names: MemberModel, LifegroupModel, TribeModel
Entities == {"members", "lifregroups", "tribes"}

\* Text: a sequence of letters, 1 = "a", 2 = "b", 3 = "A".
Lower(c) == IF c = 3 THEN 1 ELSE c
Texts == {<<1>>, <<3, 2>>}
\* search_term: None or "" (no search), or a text
Terms == {<<>>, <<1>>, <<2>>, <<1, 2>>}
\* a text field of an update body that is None or left out
NoText == <<None>>

\* {"$regex": ".*term.*", "$options": "i"}: term occurs in text, case ignored
Matches(term, text) ==
    \E i \in 1..(Len(text) - Len(term) + 1) :
        \A j \in 1..Len(term) : Lower(text[i + j - 1]) = Lower(term[j])

Has(doc, k) == k \in DOMAIN doc
\* dict[k] = v, and {"$set": upd} on a document
Put(d, k, v) == [x \in DOMAIN d \cup {k} |-> IF x = k THEN v ELSE d[x]]
Set(doc, upd) ==
    [x \in DOMAIN doc \cup DOMAIN upd |-> IF x \in DOMAIN upd THEN upd[x] ELSE doc[x]]
EmptyDict == [x \in {} |-> None]

\* One clause of a query: the document's value under the key against the
\* condition. {"deleted_at": None} matches a null and a missing field alike,
\* {"$ne": None} a field that is there and not null, {"$ne": True} everything
\* but a true field.
Clause(doc, k, cond) ==
    CASE cond.op = "null_or_missing" ->
            ~Has(doc, "deleted_at") \/ doc["deleted_at"] = None
      [] cond.op = "search" ->
            Matches(cond.term, doc["name"]) \/ Matches(cond.term, doc["description"])
      [] cond.op = "ne_none" -> Has(doc, k) /\ doc[k] # None
      [] cond.op = "ne_true" -> ~Has(doc, k) \/ doc[k] # TRUE
      [] cond.op = "eq_true" -> Has(doc, k) /\ doc[k] = TRUE

Cond(op) == [op |-> op, term |-> <<>>]
Search(term) == [op |-> "search", term |-> term]

\* A query is a dict key -> condition; a document matches when every key does.
MatchesQuery(doc, query) == \A k \in DOMAIN query : Clause(doc, k, query[k])

\* find(query) in _id order
Found(coll, query) == {i \in DOMAIN coll : MatchesQuery(coll[i], query)}
RECURSIVE Sorted(_)
Sorted(S) ==
    IF S = {} THEN <<>>
    ELSE LET m == CHOOSE x \in S : \A y \in S : x <= y
         IN  <<m>> \o Sorted(S \ {m})
\* cursor.skip(skip).limit(limit).to_list(length=limit)
Page(s, skip, limit) ==
    SubSeq(s, skip + 1, IF skip + limit < Len(s) THEN skip + limit ELSE Len(s))

\* insert_one under a fresh _id
FreshDocId(coll) == CHOOSE i \in DocIds : i \notin DOMAIN coll
Insert(coll, doc) ==
    [i \in DOMAIN coll \cup {FreshDocId(coll)} |->
        IF i = FreshDocId(coll) THEN doc ELSE coll[i]]
\* update_one(query + _id, {"$set": upd}): matched_count, and the collection
Matched(coll, id, query) == id \in DOMAIN coll /\ MatchesQuery(coll[id], query)
UpdateOne(coll, id, query, upd) ==
    IF Matched(coll, id, query) THEN [coll EXCEPT ![id] = Set(@, upd)] ELSE coll
DeleteOne(coll, id) == [i \in DOMAIN coll \ {id} |-> coll[i]]

\* What a repository method gives back: the status of the HTTPException it
\* raises (200 when it returns), the collection after it, the ids of the
\* documents it returns and, for a list, total_count.
Ret(status, detail, coll, ids, total) ==
    [status |-> status, detail |-> detail, coll |-> coll, ids |-> ids,
     total |-> total]

\* update_data.model_dump(exclude_unset=True, exclude_none=True) of a
\* MemberUpdate / LifegroupUpdate / TribeUpdate, then
\* update_dict["updated_at"] = datetime.now()
UpdateDict(update_data, t) ==
    Put([k \in {x \in DOMAIN update_data : update_data[x] # NoText} |->
            update_data[k]],
        "updated_at", t)

\* ------------------------------------------------------------- MemberModel
Member_base_query(include_deleted) ==
    IF include_deleted THEN EmptyDict
    ELSE [k \in {"$or"} |-> Cond("null_or_missing")]

Member_query_of_list(search_term, include_deleted) ==
    IF search_term # <<>>
    THEN Put(Member_base_query(include_deleted), "$or", Search(search_term))
    ELSE Member_base_query(include_deleted)

Member_get_member_list(coll, skip, limit, search_term, include_deleted) ==
    LET query == Member_query_of_list(search_term, include_deleted)
    IN  Ret(200, "", coll, Page(Sorted(Found(coll, query)), skip, limit),
            Cardinality(Found(coll, query)))

Member_create(coll, member_data, t) ==
    LET doc == [name |-> member_data.name, description |-> member_data.description,
                created_at |-> t, updated_at |-> t]
    IN Ret(200, "", Insert(coll, doc), <<FreshDocId(coll)>>, 0)

Member_get_by_id(coll, member_id, include_deleted) ==
    IF ~ObjectId_is_valid(member_id)
    THEN Ret(400, "Invalid ID format", coll, <<>>, 0)
    ELSE IF Matched(coll, member_id, Member_base_query(include_deleted))
    THEN Ret(200, "", coll, <<member_id>>, 0)
    ELSE Ret(200, "", coll, <<>>, 0)

Member_update(coll, member_id, update_data, allow_update_deleted, t) ==
    LET update_dict == UpdateDict(update_data, t)
        query == Member_base_query(allow_update_deleted)
    IN  IF ~ObjectId_is_valid(member_id)
        THEN Ret(400, "Invalid ID format", coll, <<>>, 0)
        ELSE IF DOMAIN update_dict = {}
        THEN Ret(400, "No update data provided", coll, <<>>, 0)
        ELSE IF ~Matched(coll, member_id, query)
        THEN Ret(404, "Member not found or is deleted", coll, <<>>, 0)
        ELSE Ret(200, "", UpdateOne(coll, member_id, query, update_dict),
                 <<member_id>>, 0)

\* A soft delete whose update_one carries no _base_query filter: it stamps an
\* already deleted document again.
Member_delete_restamp(coll, member_id, hard_delete, t) ==
    LET update_doc == [deleted_at |-> t, updated_at |-> t]
    IN  IF ~ObjectId_is_valid(member_id)
        THEN Ret(400, "Invalid ID format", coll, <<>>, 0)
        ELSE IF hard_delete
        THEN IF member_id \in DOMAIN coll
             THEN Ret(200, "", DeleteOne(coll, member_id), <<>>, 0)
             ELSE Ret(404, "Member not found", coll, <<>>, 0)
        ELSE IF member_id \in DOMAIN coll
        THEN Ret(200, "", UpdateOne(coll, member_id, EmptyDict, update_doc), <<>>, 0)
        ELSE Ret(404, "Member not found", coll, <<>>, 0)

Member_delete(coll, member_id, hard_delete, t) ==
    LET query == Member_base_query(FALSE)
        update_doc == [deleted_at |-> t, updated_at |-> t]
    IN  IF ~ObjectId_is_valid(member_id)
        THEN Ret(400, "Invalid ID format", coll, <<>>, 0)
        ELSE IF hard_delete
        THEN IF member_id \in DOMAIN coll
             THEN Ret(200, "", DeleteOne(coll, member_id), <<>>, 0)
             ELSE Ret(404, "Member not found", coll, <<>>, 0)
        ELSE IF Matched(coll, member_id, query)
        THEN Ret(200, "", UpdateOne(coll, member_id, query, update_doc), <<>>, 0)
        ELSE IF member_id \in DOMAIN coll
        THEN Ret(200, "", coll, <<>>, 0)
        ELSE Ret(404, "Member not found", coll, <<>>, 0)

Member_restore(coll, member_id, t) ==
    LET query == [k \in {"deleted_at"} |-> Cond("ne_none")]
        update == [deleted_at |-> None, updated_at |-> t]
    IN  IF ~ObjectId_is_valid(member_id)
        THEN Ret(400, "Invalid ID format", coll, <<>>, 0)
        ELSE IF ~Matched(coll, member_id, query)
        THEN Ret(404, "Member not found or not deleted", coll, <<>>, 0)
        ELSE Ret(200, "", UpdateOne(coll, member_id, query, update),
                 <<member_id>>, 0)

\* ---------------------------------------------------------- LifegroupModel
Lifegroup_base_query(include_deleted) ==
    IF include_deleted THEN EmptyDict
    ELSE [k \in {"$or"} |-> Cond("null_or_missing")]

Lifegroup_query_of_list(search_term, include_deleted) ==
    IF search_term # <<>>
    THEN Put(Lifegroup_base_query(include_deleted), "$or", Search(search_term))
    ELSE Lifegroup_base_query(include_deleted)

Lifegroup_get_lifegroup_list(coll, skip, limit, search_term, include_deleted) ==
    LET query == Lifegroup_query_of_list(search_term, include_deleted)
    IN  Ret(200, "", coll, Page(Sorted(Found(coll, query)), skip, limit),
            Cardinality(Found(coll, query)))

Lifegroup_create(coll, lifegroup_data, t) ==
    LET doc == [name |-> lifegroup_data.name, description |-> lifegroup_data.description,
                created_at |-> t, updated_at |-> t]
    IN Ret(200, "", Insert(coll, doc), <<FreshDocId(coll)>>, 0)

Lifegroup_get_by_id(coll, lifegroup_id, include_deleted) ==
    IF ~ObjectId_is_valid(lifegroup_id)
    THEN Ret(400, "Invalid ID format", coll, <<>>, 0)
    ELSE IF Matched(coll, lifegroup_id, Lifegroup_base_query(include_deleted))
    THEN Ret(200, "", coll, <<lifegroup_id>>, 0)
    ELSE Ret(200, "", coll, <<>>, 0)

\* An update that dumps update_data without exclude_unset / exclude_none: the
\* fields the caller left out are written as None.
Lifegroup_update_dump_all(coll, lifegroup_id, update_data, allow_update_deleted, t) ==
    LET update_dict == Put([k \in DOMAIN update_data |-> update_data[k]],
                           "updated_at", t)
        query == Lifegroup_base_query(allow_update_deleted)
    IN  IF ~ObjectId_is_valid(lifegroup_id)
        THEN Ret(400, "Invalid ID format", coll, <<>>, 0)
        ELSE IF ~Matched(coll, lifegroup_id, query)
        THEN Ret(404, "Lifegroup not found or is deleted", coll, <<>>, 0)
        ELSE Ret(200, "", UpdateOne(coll, lifegroup_id, query, update_dict),
                 <<lifegroup_id>>, 0)

Lifegroup_update(coll, lifegroup_id, update_data, allow_update_deleted, t) ==
    LET update_dict == UpdateDict(update_data, t)
        query == Lifegroup_base_query(allow_update_deleted)
    IN  IF ~ObjectId_is_valid(lifegroup_id)
        THEN Ret(400, "Invalid ID format", coll, <<>>, 0)
        ELSE IF DOMAIN update_dict = {}
        THEN Ret(400, "No update data provided", coll, <<>>, 0)
        ELSE IF ~Matched(coll, lifegroup_id, query)
        THEN Ret(404, "Lifegroup not found or is deleted", coll, <<>>, 0)
        ELSE Ret(200, "", UpdateOne(coll, lifegroup_id, query, update_dict),
                 <<lifegroup_id>>, 0)

Lifegroup_delete(coll, lifegroup_id, hard_delete, t) ==
    LET query == Lifegroup_base_query(FALSE)
        update_doc == [deleted_at |-> t, updated_at |-> t]
    IN  IF ~ObjectId_is_valid(lifegroup_id)
        THEN Ret(400, "Invalid ID format", coll, <<>>, 0)
        ELSE IF hard_delete
        THEN IF lifegroup_id \in DOMAIN coll
             THEN Ret(200, "", DeleteOne(coll, lifegroup_id), <<>>, 0)
             ELSE Ret(404, "Lifegroup not found", coll, <<>>, 0)
        ELSE IF Matched(coll, lifegroup_id, query)
        THEN Ret(200, "", UpdateOne(coll, lifegroup_id, query, update_doc), <<>>, 0)
        ELSE IF lifegroup_id \in DOMAIN coll
        THEN Ret(200, "", coll, <<>>, 0)
        ELSE Ret(404, "Lifegroup not found", coll, <<>>, 0)

Lifegroup_restore(coll, lifegroup_id, t) ==
    LET query == [k \in {"deleted_at"} |-> Cond("ne_none")]
        update == [deleted_at |-> None, updated_at |-> t]
    IN  IF ~ObjectId_is_valid(lifegroup_id)
        THEN Ret(400, "Invalid ID format", coll, <<>>, 0)
        ELSE IF ~Matched(coll, lifegroup_id, query)
        THEN Ret(404, "Lifegroup not found or not deleted", coll, <<>>, 0)
        ELSE Ret(200, "", UpdateOne(coll, lifegroup_id, query, update),
                 <<lifegroup_id>>, 0)

\* -------------------------------------------------------------- TribeModel
Tribe_base_query(include_deleted) ==
    IF include_deleted THEN EmptyDict
    ELSE [k \in {"deleted"} |-> Cond("ne_true")]

Tribe_query_of_list(search_term, include_deleted) ==
    IF search_term # <<>>
    THEN Put(Tribe_base_query(include_deleted), "$or", Search(search_term))
    ELSE Tribe_base_query(include_deleted)

Tribe_get_tribe_list(coll, skip, limit, search_term, include_deleted) ==
    LET query == Tribe_query_of_list(search_term, include_deleted)
    IN  Ret(200, "", coll, Page(Sorted(Found(coll, query)), skip, limit),
            Cardinality(Found(coll, query)))

Tribe_create(coll, tribe_data, t) ==
    LET doc == [name |-> tribe_data.name, description |-> tribe_data.description,
                created_at |-> t, updated_at |-> t,
                deleted |-> FALSE, deleted_at |-> None]
    IN Ret(200, "", Insert(coll, doc), <<FreshDocId(coll)>>, 0)

Tribe_get_by_id(coll, tribe_id, include_deleted) ==
    IF ~ObjectId_is_valid(tribe_id)
    THEN Ret(400, "Invalid ID format", coll, <<>>, 0)
    ELSE IF Matched(coll, tribe_id, Tribe_base_query(include_deleted))
    THEN Ret(200, "", coll, <<tribe_id>>, 0)
    ELSE Ret(200, "", coll, <<>>, 0)

Tribe_update(coll, tribe_id, update_data, allow_update_deleted, t) ==
    LET update_dict == UpdateDict(update_data, t)
        query == Tribe_base_query(allow_update_deleted)
    IN  IF ~ObjectId_is_valid(tribe_id)
        THEN Ret(400, "Invalid ID format", coll, <<>>, 0)
        ELSE IF DOMAIN update_dict = {}
        THEN Ret(400, "No update data provided", coll, <<>>, 0)
        ELSE IF ~Matched(coll, tribe_id, query)
        THEN Ret(404, "Tribe not found or is deleted", coll, <<>>, 0)
        ELSE Ret(200, "", UpdateOne(coll, tribe_id, query, update_dict),
                 <<tribe_id>>, 0)

Tribe_delete(coll, tribe_id, hard_delete, t) ==
    LET query == [k \in {"deleted"} |-> Cond("ne_true")]
        update == [deleted |-> TRUE, deleted_at |-> t, updated_at |-> t]
    IN  IF ~ObjectId_is_valid(tribe_id)
        THEN Ret(400, "Invalid ID format", coll, <<>>, 0)
        ELSE IF hard_delete
        THEN IF tribe_id \in DOMAIN coll
             THEN Ret(200, "", DeleteOne(coll, tribe_id), <<>>, 0)
             ELSE Ret(404, "Tribe not found", coll, <<>>, 0)
        ELSE IF Matched(coll, tribe_id, query)
        THEN Ret(200, "", UpdateOne(coll, tribe_id, query, update), <<>>, 0)
        ELSE IF tribe_id \in DOMAIN coll
        THEN Ret(200, "", coll, <<>>, 0)
        ELSE Ret(404, "Tribe not found", coll, <<>>, 0)

\* A restore that clears deleted_at and leaves the deleted flag set.
Tribe_restore_keeps_flag(coll, tribe_id, t) ==
    LET query == [k \in {"deleted"} |-> Cond("eq_true")]
        update == [deleted_at |-> None, updated_at |-> t]
    IN  IF ~ObjectId_is_valid(tribe_id)
        THEN Ret(400, "Invalid ID format", coll, <<>>, 0)
        ELSE IF ~Matched(coll, tribe_id, query)
        THEN Ret(404, "Tribe not found or not deleted", coll, <<>>, 0)
        ELSE Ret(200, "", UpdateOne(coll, tribe_id, query, update),
                 <<tribe_id>>, 0)

Tribe_restore(coll, tribe_id, t) ==
    LET query == [k \in {"deleted"} |-> Cond("eq_true")]
        update == [deleted |-> FALSE, deleted_at |-> None, updated_at |-> t]
    IN  IF ~ObjectId_is_valid(tribe_id)
        THEN Ret(400, "Invalid ID format", coll, <<>>, 0)
        ELSE IF ~Matched(coll, tribe_id, query)
        THEN Ret(404, "Tribe not found or not deleted", coll, <<>>, 0)
        ELSE Ret(200, "", UpdateOne(coll, tribe_id, query, update),
                 <<tribe_id>>, 0)

\* ---------------------------------------------------- the repository calls
\* The method of the class that `entity` names.
Repo_list(coll, skip, limit, search_term, include_deleted) ==
    CASE entity = "members" ->
            Member_get_member_list(coll, skip, limit, search_term, include_deleted)
      [] entity = "lifregroups" ->
            Lifegroup_get_lifegroup_list(coll, skip, limit, search_term, include_deleted)
      [] entity = "tribes" ->
            Tribe_get_tribe_list(coll, skip, limit, search_term, include_deleted)

Repo_create(coll, data, t) ==
    CASE entity = "members" -> Member_create(coll, data, t)
      [] entity = "lifregroups" -> Lifegroup_create(coll, data, t)
      [] entity = "tribes" -> Tribe_create(coll, data, t)

Repo_get_by_id(coll, id, include_deleted) ==
    CASE entity = "members" -> Member_get_by_id(coll, id, include_deleted)
      [] entity = "lifregroups" -> Lifegroup_get_by_id(coll, id, include_deleted)
      [] entity = "tribes" -> Tribe_get_by_id(coll, id, include_deleted)

Repo_update(coll, id, update_data, allow_update_deleted, t) ==
    CASE entity = "members" ->
            Member_update(coll, id, update_data, allow_update_deleted, t)
      [] entity = "lifregroups" ->
            Lifegroup_update(coll, id, update_data, allow_update_deleted, t)
      [] entity = "tribes" ->
            Tribe_update(coll, id, update_data, allow_update_deleted, t)

Repo_delete(coll, id, hard_delete, t) ==
    CASE entity = "members" -> Member_delete(coll, id, hard_delete, t)
      [] entity = "lifregroups" -> Lifegroup_delete(coll, id, hard_delete, t)
      [] entity = "tribes" -> Tribe_delete(coll, id, hard_delete, t)

Repo_restore(coll, id, t) ==
    CASE entity = "members" -> Member_restore(coll, id, t)
      [] entity = "lifregroups" -> Lifegroup_restore(coll, id, t)
      [] entity = "tribes" -> Tribe_restore(coll, id, t)

\* The call that `last` records: the method, its arguments, the collection
\* it found and its result.
Call(op, id, flag, update_data, ret) ==
    [op |-> op, id |-> id, flag |-> flag, update_data |-> update_data,
     before |-> docs, status |-> ret.status, detail |-> ret.detail,
     ids |-> ret.ids, total |-> ret.total]

NoUpdate == [name |-> NoText, description |-> NoText]
NoCall ==
    [op |-> "", id |-> None, flag |-> FALSE, update_data |-> NoUpdate,
     before |-> EmptyDict, status |-> 0, detail |-> "", ids |-> <<>>, total |-> 0]

\* A call that writes reads the clock; the clock has moved on by the next one.
Writes(ret) ==
    /\ now < MaxClock
    /\ docs' = ret.coll
    /\ now' = now + 1
    /\ UNCHANGED <<entity, memberVars, userVars>>

RepoCreate ==
    /\ Cardinality(DOMAIN docs) < MaxDocs
    /\ \E name \in Texts, description \in Texts :
          LET data == [name |-> name, description |-> description]
              ret == Repo_create(docs, data, now)
          IN  /\ Writes(ret)
              /\ last' = Call("create", FreshDocId(docs), FALSE, NoUpdate, ret)

RepoUpdate ==
    \E id \in DocIds \cup {BadId}, name \in Texts \cup {NoText},
          description \in Texts \cup {NoText}, allow_update_deleted \in BOOLEAN :
        LET update_data == [name |-> name, description |-> description]
            ret == Repo_update(docs, id, update_data, allow_update_deleted, now)
        IN  /\ Writes(ret)
            /\ last' = Call("update", id, allow_update_deleted, update_data, ret)

RepoDelete ==
    \E id \in DocIds \cup {BadId}, hard_delete \in BOOLEAN :
        LET ret == Repo_delete(docs, id, hard_delete, now)
        IN  /\ Writes(ret)
            /\ last' = Call("delete", id, hard_delete, NoUpdate, ret)

RepoRestore ==
    \E id \in DocIds \cup {BadId} :
        LET ret == Repo_restore(docs, id, now)
        IN  /\ Writes(ret)
            /\ last' = Call("restore", id, FALSE, NoUpdate, ret)

RepoGet ==
    /\ \E id \in DocIds \cup {BadId}, include_deleted \in BOOLEAN :
          last' = Call("get_by_id", id, include_deleted, NoUpdate,
                       Repo_get_by_id(docs, id, include_deleted))
    /\ UNCHANGED <<entity, docs, now, memberVars, userVars>>

\* skip and limit as the controllers compute them from page >= 1 and
\* page_size >= 1; the search term rides in update_data.name of the record.
RepoList ==
    /\ \E page \in 1..2, page_size \in 1..MaxDocs, search_term \in Terms,
          include_deleted \in BOOLEAN :
          last' = Call("list", None, include_deleted,
                       [name |-> search_term, description |-> NoText],
                       Repo_list(docs, (page - 1) * page_size, page_size,
                                 search_term, include_deleted))
    /\ UNCHANGED <<entity, docs, now, memberVars, userVars>>

InitRepo ==
    /\ entity \in Entities
    /\ docs = EmptyDict
    /\ now = 1
    /\ last = NoCall
    /\ MembersUnused /\ UsersUnused

NextRepo ==
    \/ RepoCreate \/ RepoUpdate \/ RepoDelete \/ RepoRestore
    \/ RepoGet \/ RepoList

SpecRepo == InitRepo /\ [][NextRepo]_vars

\* ------------------------------------------------------------------- users
\* UserModel, the /users handlers of UserController and the login of
\* AuthController. A user document is its email, full_name, password and
\* updated_at; a document a method returns carries its _id as well.

\* user documents that are ever inserted
MaxUsers == 2

UserIds == 1..MaxUsers
Emails == Texts
\* the passwords a request submits
Passwords == {1, 2}

\* pwd_context.hash(password): a bcrypt hash, never the password itself (the
\* random salt is left out: verify depends on the password alone).
get_password_hash(password) == 10 + password
IsHash(h) == h > 10
\* pwd_context.verify(plain_password, hashed_password); a stored value that
\* is no hash raises UnknownHashError, which no handler catches.
verify_password(plain_password, hashed_password) ==
    IF ~IsHash(hashed_password) THEN "UnknownHashError"
    ELSE IF hashed_password = get_password_hash(plain_password) THEN "True"
    ELSE "False"

\* _convert_objectids_to_str(document): the document with its _id
WithId(coll, id) == Put(coll[id], "_id", id)
\* projection={"password": False}
Project(doc) == [k \in DOMAIN doc \ {"password"} |-> doc[k]]

\* What a UserModel method gives back: the status of the HTTPException it
\* raises (200 when it returns), the collection after it, the documents it
\* returns and, for the list, total_count.
URet(status, detail, coll, out, total) ==
    [status |-> status, detail |-> detail, coll |-> coll, out |-> out,
     total |-> total]

\* query["$or"] = [{"email": regex_pattern, "full_name": regex_pattern}]: one
\* alternative, which asks both fields to match; a null full_name matches no
\* regular expression.
UserMatchesSearch(doc, search_term) ==
    /\ Matches(search_term, doc["email"])
    /\ doc["full_name"] # NoText
    /\ Matches(search_term, doc["full_name"])

UserModel_get_user_list(coll, skip, limit, search_term) ==
    LET hits == {i \in DOMAIN coll :
                    search_term = <<>> \/ UserMatchesSearch(coll[i], search_term)}
        page == Page(Sorted(hits), skip, limit)
    IN  URet(200, "", coll, {Project(WithId(coll, i)) : i \in Range(page)},
             Cardinality(hits))

FreshUserId(coll) == CHOOSE i \in UserIds : i \notin DOMAIN coll

\* UserCreate(**payload).model_dump(): email, full_name (None: the request has
\* no such field), password, created_at, updated_at
UserCreate(payload) ==
    [email |-> payload.email, full_name |-> NoText, password |-> payload.password,
     updated_at |-> now]

UserModel_create(coll, user_data) ==
    LET id == FreshUserId(coll)
        after == [i \in DOMAIN coll \cup {id} |->
                     IF i = id THEN user_data ELSE coll[i]]
    IN  URet(200, "", after, {Project(WithId(after, id))}, 0)

UserModel_get_by_id(coll, user_id) ==
    IF ~ObjectId_is_valid(user_id)
    THEN URet(400, "Invalid ID format", coll, {}, 0)
    ELSE IF user_id \in DOMAIN coll
    THEN URet(200, "", coll, {Project(WithId(coll, user_id))}, 0)
    ELSE URet(200, "", coll, {}, 0)

UserModel_get_all(coll) ==
    URet(200, "", coll, {WithId(coll, i) : i \in DOMAIN coll}, 0)

\* find_one({"email": email}): any one of the documents with that email
UserModel_get_by_email(coll, email) ==
    {WithId(coll, i) : i \in {j \in DOMAIN coll : coll[j]["email"] = email}}

UserModel_update_password(coll, user_id, new_password) ==
    LET update_dict == [password |-> new_password, updated_at |-> now]
        after == UpdateOne(coll, user_id, EmptyDict, update_dict)
    IN  IF ~ObjectId_is_valid(user_id)
        THEN URet(400, "Invalid ID format", coll, {}, 0)
        ELSE IF user_id \notin DOMAIN after
        THEN URet(404, "User not found after update", after, {}, 0)
        ELSE URet(200, "", after, {Project(WithId(after, user_id))}, 0)

\* A field of UserUpdate that is None or left out.
Unset(k) == IF k = "password" THEN None ELSE NoText

\* update_data.model_dump(exclude_unset=True, exclude_none=True) of a
\* UserUpdate, then update_dict["updated_at"] = datetime.now()
UserUpdateDict(update_data) ==
    Put([k \in {x \in DOMAIN update_data : update_data[x] # Unset(x)} |->
            update_data[k]],
        "updated_at", now)

UserModel_update(coll, user_id, update_data) ==
    LET update_dict == UserUpdateDict(update_data)
        after == UpdateOne(coll, user_id, EmptyDict, update_dict)
    IN  IF ~ObjectId_is_valid(user_id)
        THEN URet(400, "Invalid ID format", coll, {}, 0)
        ELSE IF DOMAIN update_dict = {}
        THEN URet(400, "No update data provided", coll, {}, 0)
        ELSE IF user_id \notin DOMAIN after
        THEN URet(404, "User not found after update", after, {}, 0)
        ELSE URet(200, "", after, {Project(WithId(after, user_id))}, 0)

UserModel_delete(coll, user_id) ==
    IF ~ObjectId_is_valid(user_id)
    THEN URet(400, "Invalid ID format", coll, {}, 0)
    ELSE IF user_id \notin DOMAIN coll
    THEN URet(404, "User not found", coll, {}, 0)
    ELSE URet(200, "", DeleteOne(coll, user_id), {}, 0)

\* ---------------------------------------------------------------- tokens
\* the clock ticks an access token lives (ACCESS_TOKEN_EXPIRE_MINUTES)
TokenLife == 2

\* A token is what jwt.decode can tell about the string: whether it is a
\* well-formed JWS (jws), the key that signed it, and its sub and exp claims.
NoToken == [sub |-> None, exp |-> 0, key |-> "", jws |-> FALSE]

\* create_access_token(data, expires_delta): jwt.encode of data and its
\* expiry under SECRET_KEY
create_access_token(data, expires_delta) ==
    [sub |-> data.sub, exp |-> now + expires_delta, key |-> "SECRET_KEY",
     jws |-> TRUE]

\* the clock ticks a refresh token lives (Hash.refresh_token_expire_minutes)
RefreshLife == 3

\* create_refresh_token(data, expires_delta): the same signing, a longer life
create_refresh_token(data, expires_delta) ==
    [sub |-> data.sub, exp |-> now + expires_delta, key |-> "SECRET_KEY",
     jws |-> TRUE]

\* jwt.decode(token, SECRET_KEY, algorithms=[ALGORITHM]) at time t: DecodeError
\* for a string that is no JWS, InvalidSignatureError for another key,
\* ExpiredSignatureError once exp <= t; each is an InvalidTokenError
jwt_decode(token, t) ==
    IF ~token.jws THEN "DecodeError"
    ELSE IF token.key # "SECRET_KEY" THEN "InvalidSignatureError"
    ELSE IF token.exp <= t THEN "ExpiredSignatureError"
    ELSE "payload"

\* A verify_token that lets an expired token through (verify_exp off).
verify_token_unexpiring(token, t) ==
    IF ~token.jws \/ token.key # "SECRET_KEY" \/ token.sub = None
    THEN [status |-> 401, email |-> None]
    ELSE [status |-> 200, email |-> token.sub]

\* verify_token(token) at time t: 401 when jwt.decode raises or when there is
\* no sub; else TokenData(email=sub)
verify_token(token, t) ==
    IF jwt_decode(token, t) # "payload" \/ token.sub = None
    THEN [status |-> 401, email |-> None]
    ELSE [status |-> 200, email |-> token.sub]

\* The tokens a client can present: any claims under any key, or no JWS at all.
Keys == {"SECRET_KEY", "other"}
Tokens ==
    [sub : UserIds \cup {None}, exp : 0..(MaxClock + 1), key : Keys,
     jws : BOOLEAN]

\* ----------------------------------------------------------- user frames
UIdle ==
    [kind |-> "idle", pc |-> "idle", user_id |-> None, email |-> NoText,
     password |-> None, full_name |-> NoText, status |-> 0, raised |-> 0,
     detail |-> "", out |-> {}, token |-> NoToken, refresh |-> NoToken,
     at |-> 0, path |-> "", page |-> 0, page_size |-> 0]

UFrame(kind, pc, user_id, email, password, full_name) ==
    [UIdle EXCEPT !.kind = kind, !.pc = pc, !.user_id = user_id, !.email = email,
                  !.password = password, !.full_name = full_name]

\* return JSONResponse(status_code=..., content=...)
URespond(f, status, detail, out) ==
    [f EXCEPT !.pc = "done", !.status = status, !.detail = detail, !.out = out]

\* except HTTPException as e: return JSONResponse(status_code=400, ...)
URaise(f, raised, detail) ==
    [f EXCEPT !.pc = "done", !.status = 400, !.raised = raised, !.detail = detail]

\* A step of a user handler leaves the members and the repository part alone.
UserFrame == UNCHANGED <<memberVars, repoVars, issued, appVars>>

\* --------------------------------------------------------- UserController
UserInsertsPending ==
    Cardinality({r \in Slots : ureqs[r].kind = "store" /\ ureqs[r].pc # "done"})

\* POST /users: CreateUserRequest (a well-formed email, password and
\* confirm_password equal); payload["password"] = get_password_hash(...)
BeginUserStore(r) ==
    /\ ureqs[r].kind = "idle"
    /\ Cardinality(DOMAIN usersColl) + UserInsertsPending < MaxUsers
    /\ \E email \in Emails, password \in Passwords :
          ureqs' = [ureqs EXCEPT ![r] =
              UFrame("store", "get_by_email", None, email,
                     get_password_hash(password), NoText)]
    /\ UNCHANGED usersColl /\ UserFrame

\* A store that does not look for the email and goes on to create.
UserStoreLookup_unchecked(r) ==
    /\ ureqs[r].kind = "store" /\ ureqs[r].pc = "get_by_email"
    /\ ureqs' = [ureqs EXCEPT ![r] = [@ EXCEPT !.pc = "create"]]
    /\ UNCHANGED usersColl /\ UserFrame

\* existing = await UserModel(db).get_by_email(payload["email"]); 422 when found
UserStoreLookup(r) ==
    /\ ureqs[r].kind = "store" /\ ureqs[r].pc = "get_by_email"
    /\ LET f == ureqs[r]
       IN  ureqs' = [ureqs EXCEPT ![r] =
              IF UserModel_get_by_email(usersColl, f.email) # {}
              THEN URespond(f, 422, "Email already exists", {})
              ELSE [f EXCEPT !.pc = "create"]]
    /\ UNCHANGED usersColl /\ UserFrame

\* user = await user_model.create(UserCreate(**payload)); 200
UserStoreCreate(r) ==
    /\ ureqs[r].kind = "store" /\ ureqs[r].pc = "create"
    /\ LET f == ureqs[r]
           ret == UserModel_create(usersColl, UserCreate(f))
       IN  /\ usersColl' = ret.coll
           /\ ureqs' = [ureqs EXCEPT ![r] =
                 URespond([f EXCEPT !.user_id = FreshUserId(usersColl)],
                          200, "", ret.out)]
    /\ UserFrame

\* PUT /users/{user_id} with a UserUpdate body, PATCH /users/{user_id} with a
\* ChangeUserPasswordRequest, DELETE /users/{user_id}
UserUpdateArrives(r, emails, passwords, full_names) ==
    /\ ureqs[r].kind = "idle"
    /\ \E user_id \in UserIds \cup {BadId}, email \in emails,
          password \in passwords, full_name \in full_names :
          ureqs' = [ureqs EXCEPT ![r] =
              UFrame("update", "get", user_id, email, password, full_name)]
    /\ UNCHANGED usersColl /\ UserFrame

BeginUserUpdate(r) ==
    UserUpdateArrives(r, Emails \cup {NoText}, Passwords \cup {None},
                      {NoText, <<2>>})

\* PUT /users/{user_id} with a body that gives the email alone
BeginUserEmailUpdate(r) == UserUpdateArrives(r, Emails, {None}, {NoText})

BeginUserPassword(r) ==
    /\ ureqs[r].kind = "idle"
    /\ \E user_id \in UserIds \cup {BadId}, password \in Passwords :
          ureqs' = [ureqs EXCEPT ![r] =
              UFrame("update_password", "get", user_id, NoText, password, NoText)]
    /\ UNCHANGED usersColl /\ UserFrame

BeginUserDelete(r) ==
    /\ ureqs[r].kind = "idle"
    /\ \E user_id \in UserIds \cup {BadId} :
          ureqs' = [ureqs EXCEPT ![r] =
              UFrame("delete", "get", user_id, NoText, None, NoText)]
    /\ UNCHANGED usersColl /\ UserFrame

\* user = await user_model.get_by_id(user_id); HTTPException 404 when None
UserGet(r) ==
    /\ ureqs[r].kind \in {"update", "update_password", "delete"}
    /\ ureqs[r].pc = "get"
    /\ LET f == ureqs[r]
           ret == UserModel_get_by_id(usersColl, f.user_id)
       IN  ureqs' = [ureqs EXCEPT ![r] =
              IF ret.status # 200 THEN URaise(f, ret.status, ret.detail)
              ELSE IF ret.out = {} THEN URaise(f, 404, "User not found")
              ELSE [f EXCEPT !.pc = "write"]]
    /\ UNCHANGED usersColl /\ UserFrame

\* response = await user_model.update(user_id, request); 200
UserUpdateWrite(r) ==
    /\ ureqs[r].kind = "update" /\ ureqs[r].pc = "write"
    /\ LET f == ureqs[r]
           ret == UserModel_update(usersColl, f.user_id,
                     [email |-> f.email, password |-> f.password,
                      full_name |-> f.full_name])
       IN  /\ usersColl' = ret.coll
           /\ ureqs' = [ureqs EXCEPT ![r] =
                 IF ret.status # 200 THEN URaise(f, ret.status, ret.detail)
                 ELSE URespond(f, 200, "", ret.out)]
    /\ UserFrame

\* await user_model.update_password(user["_id"],
\*                                  get_password_hash(payload["password"])); 204
UserPasswordWrite(r) ==
    /\ ureqs[r].kind = "update_password" /\ ureqs[r].pc = "write"
    /\ LET f == ureqs[r]
           ret == UserModel_update_password(usersColl, f.user_id,
                                            get_password_hash(f.password))
       IN  /\ usersColl' = ret.coll
           /\ ureqs' = [ureqs EXCEPT ![r] =
                 IF ret.status # 200 THEN URaise(f, ret.status, ret.detail)
                 ELSE URespond(f, 204, "", {})]
    /\ UserFrame

\* await user_model.delete(user_id); 204
UserDeleteWrite(r) ==
    /\ ureqs[r].kind = "delete" /\ ureqs[r].pc = "write"
    /\ LET f == ureqs[r]
           ret == UserModel_delete(usersColl, f.user_id)
       IN  /\ usersColl' = ret.coll
           /\ ureqs' = [ureqs EXCEPT ![r] =
                 IF ret.status # 200 THEN URaise(f, ret.status, ret.detail)
                 ELSE URespond(f, 204, "", {})]
    /\ UserFrame

\* GET /users: get_user_list(skip, limit, search_term), one repository call
UserIndex(r) ==
    /\ ureqs[r].kind = "idle"
    /\ \E page \in 1..2, page_size \in 1..MaxUsers, search \in Terms :
          ureqs' = [ureqs EXCEPT ![r] =
              URespond([UFrame("index", "list", None, search, None, NoText)
                           EXCEPT !.page = page, !.page_size = page_size],
                  200, "",
                  UserModel_get_user_list(usersColl, (page - 1) * page_size,
                                          page_size, search).out)]
    /\ UNCHANGED usersColl /\ UserFrame

\* GET /users/{user_id}: get_by_id, HTTPException 404 when None
UserShow(r) ==
    /\ ureqs[r].kind = "idle"
    /\ \E user_id \in UserIds \cup {BadId} :
          LET f == UFrame("show", "get", user_id, NoText, None, NoText)
              ret == UserModel_get_by_id(usersColl, user_id)
          IN  ureqs' = [ureqs EXCEPT ![r] =
                 IF ret.status # 200 THEN URaise(f, ret.status, ret.detail)
                 ELSE IF ret.out = {} THEN URaise(f, 404, "User not found")
                 ELSE URespond(f, 200, "", ret.out)]
    /\ UNCHANGED usersColl /\ UserFrame

\* UserModel.get_all(), called on the repository itself
UserGetAll(r) ==
    /\ ureqs[r].kind = "idle"
    /\ ureqs' = [ureqs EXCEPT ![r] =
          URespond(UFrame("get_all", "find", None, NoText, None, NoText), 200, "",
                   UserModel_get_all(usersColl).out)]
    /\ UNCHANGED usersColl /\ UserFrame

\* The response is sent and the handler frame is gone.
UserReply(r) ==
    /\ ureqs[r].pc = "done"
    /\ ureqs' = [ureqs EXCEPT ![r] = UIdle]
    /\ UNCHANGED usersColl /\ UserFrame

InitUsers ==
    /\ usersColl = EmptyDict
    /\ ureqs = [r \in Slots |-> UIdle]
    /\ issued = {} /\ app = {} /\ DbUnused
    /\ MembersUnused /\ RepoUnused /\ now = 0

UserStep(r) ==
    \/ BeginUserStore(r) \/ UserStoreLookup(r) \/ UserStoreCreate(r)
    \/ BeginUserUpdate(r) \/ BeginUserPassword(r) \/ BeginUserDelete(r)
    \/ UserGet(r) \/ UserUpdateWrite(r) \/ UserPasswordWrite(r)
    \/ UserDeleteWrite(r)
    \/ UserIndex(r) \/ UserShow(r) \/ UserGetAll(r)
    \/ UserReply(r)

\* Requests are handled one after the other.
NextUsers == UserStep(1)

SpecUsers == InitUsers /\ [][NextUsers]_vars

\* Two requests that create a user or change a user's email are handled
\* concurrently.
UserRaceStep(r) ==
    \/ BeginUserStore(r) \/ UserStoreLookup(r) \/ UserStoreCreate(r)
    \/ BeginUserEmailUpdate(r) \/ UserGet(r) \/ UserUpdateWrite(r)
    \/ UserReply(r)

NextUsersRace == \E r \in Slots : UserRaceStep(r)

SpecUsersRace == InitUsers /\ [][NextUsersRace]_vars

\* --------------------------------------------------------- AuthController
\* The clock moves on between two steps.
Tick ==
    /\ now < MaxClock
    /\ now' = now + 1
    /\ UNCHANGED <<memberVars, entity, docs, last, userVars>>

\* token pairs that are remembered as handed out
MaxIssued == 2

\* The pairs handed out once the response of frame f is sent.
Handed(f) ==
    IF f.status = 200 /\ Cardinality(issued) < MaxIssued
    THEN issued \cup {[access |-> f.token, refresh |-> f.refresh]}
    ELSE issued

\* POST /auth/login with a LoginRequest: get_by_email (find_one gives any one
\* of the documents with that email), 404 when there is none; verify_password,
\* 401 when it fails; then the access token and the refresh token of
\* user["_id"]. An HTTPException is answered 400; UnknownHashError is caught
\* by nobody and the server answers 500.
LoginAnswer(f, user) ==
    LET verified == verify_password(f.password, user["password"])
        data == [sub |-> user["_id"]]
        g == [f EXCEPT !.user_id = user["_id"]]
    IN  IF verified = "UnknownHashError"
        THEN URespond(g, 500, "Internal Server Error", {})
        ELSE IF verified = "False"
        THEN URaise(g, 401, "Invalid credentials")
        ELSE [URespond(g, 200, "",
                  {[email |-> user["email"], full_name |-> user["full_name"]]})
              EXCEPT !.token = create_access_token(data, TokenLife),
                     !.refresh = create_refresh_token(data, RefreshLife),
                     !.at = now]

\* The responses login can give to the request of frame f.
LoginAnswers(f) ==
    LET hits == UserModel_get_by_email(usersColl, f.email)
    IN  IF hits = {} THEN {URaise(f, 404, "User not found")}
        ELSE {LoginAnswer(f, user) : user \in hits}

AuthLogin(r) ==
    /\ ureqs[r].kind = "idle"
    /\ \E email \in Emails, password \in Passwords :
          \E answer \in LoginAnswers(UFrame("login", "get_by_email", None, email,
                                            password, NoText)) :
              ureqs' = [ureqs EXCEPT ![r] = answer]
    /\ issued' = Handed(ureqs'[r])
    /\ UNCHANGED <<usersColl, memberVars, repoVars, appVars>>

\* The client that logged in presents its access token: verify_token(token)
AuthVerify(r) ==
    /\ ureqs[r].kind = "login" /\ ureqs[r].pc = "done" /\ ureqs[r].status = 200
    /\ LET f == ureqs[r]
       IN  ureqs' = [ureqs EXCEPT ![r] =
              [f EXCEPT !.kind = "verify", !.out = {verify_token(f.token, now)}]]
    /\ UNCHANGED usersColl /\ UserFrame

\* use_refresh_token(token): the refresh token is verified as an access token
\* is; a valid one gives a new access token and a new refresh token of its
\* subject, both with fresh expiries, and any other raises 401.
use_refresh_token(token) ==
    LET v == verify_token(token, now)
        data == [sub |-> v.email]
    IN  IF v.status # 200
        THEN [status |-> 401, access_token |-> NoToken, refresh_token |-> NoToken]
        ELSE [status |-> 200,
              access_token |-> create_access_token(data, TokenLife),
              refresh_token |-> create_refresh_token(data, RefreshLife)]

\* The refresh tokens a client can send: one it was handed, or one it made up
\* without the server's key.
Presentable ==
    {p.refresh : p \in issued}
        \cup {t \in Tokens : t.key # "SECRET_KEY" \/ ~t.jws}

\* POST /auth/refresh with a RefreshTokenRequest: use_refresh_token, 200 with
\* what it returns; its HTTPException is answered 400.
RefreshAnswer(f, token) ==
    LET response == use_refresh_token(token)
    IN  IF response.status # 200
        THEN URaise(f, response.status, "Could not validate credentials")
        ELSE [URespond(f, 200, "", {})
              EXCEPT !.token = response.access_token,
                     !.refresh = response.refresh_token,
                     !.at = now]

AuthRefresh(r) ==
    /\ ureqs[r].kind = "idle"
    /\ \E token \in Presentable :
          ureqs' = [ureqs EXCEPT ![r] =
              RefreshAnswer(UFrame("refresh", "exchange", token.sub, NoText, None,
                                   NoText), token)]
    /\ issued' = Handed(ureqs'[r])
    /\ UNCHANGED <<usersColl, memberVars, repoVars, appVars>>

\* str(ObjectId): the id as the text that login puts into sub; it is no
\* well-formed email address.
str_id(id) == <<100 + id>>

\* PUT /users/{user_id} with a body whose email is the id of the first user:
\* UserUpdate takes any string as email
BeginUserEmailToId(r) == UserUpdateArrives(r, {str_id(1)}, {None}, {NoText})

\* get_user(email): UserModel.get_by_email(email)
get_user(email) == UserModel_get_by_email(usersColl, email)

\* GET /auth/profile by the client that logged in, with its access token:
\* get_current_user verifies the token (401), takes get_user(email=sub), 401
\* "User not found" when there is none, else User(**user_dict); the 401 of a
\* dependency is not the handler's to catch.
AuthProfile(r) ==
    /\ ureqs[r].kind = "login" /\ ureqs[r].pc = "done" /\ ureqs[r].status = 200
    /\ LET f == [ureqs[r] EXCEPT !.kind = "profile"]
           token_data == verify_token(f.token, now)
       IN  IF token_data.status # 200
           THEN ureqs' = [ureqs EXCEPT ![r] =
                   URespond(f, 401, "Could not validate credentials", {})]
           ELSE IF get_user(str_id(token_data.email)) = {}
           THEN ureqs' = [ureqs EXCEPT ![r] =
                   URespond(f, 401, "User not found", {})]
           ELSE \E user_dict \in get_user(str_id(token_data.email)) :
                   ureqs' = [ureqs EXCEPT ![r] =
                      URespond(f, 200, "", {Project(user_dict)})]
    /\ UNCHANGED usersColl /\ UserFrame

\* Users are created and their emails changed, one request after the other,
\* and they log in while the clock moves.
NextAuth ==
    \/ BeginUserStore(1) \/ UserStoreLookup(1) \/ UserStoreCreate(1)
    \/ BeginUserEmailUpdate(1) \/ BeginUserEmailToId(1)
    \/ UserGet(1) \/ UserUpdateWrite(1)
    \/ AuthLogin(1) \/ AuthVerify(1) \/ AuthProfile(1)
    \/ UserReply(1)
    \/ Tick

SpecAuth == InitUsers /\ [][NextAuth]_vars

\* Users are created, log in and exchange their refresh tokens while the
\* clock moves.
NextRefresh ==
    \/ BeginUserStore(1) \/ UserStoreLookup(1) \/ UserStoreCreate(1)
    \/ AuthLogin(1) \/ AuthRefresh(1)
    \/ UserReply(1)
    \/ Tick

SpecRefresh == InitUsers /\ [][NextRefresh]_vars

\* A request presents a bearer token: verify_token(token)
AuthPresent(r) ==
    /\ ureqs[r].kind = "idle"
    /\ \E token \in Tokens :
          ureqs' = [ureqs EXCEPT ![r] =
              [UFrame("present", "done", None, NoText, None, NoText)
                  EXCEPT !.token = token, !.at = now,
                         !.out = {verify_token(token, now)}]]
    /\ UNCHANGED usersColl /\ UserFrame

\* Tokens of every kind are presented while the clock moves.
NextToken == AuthPresent(1) \/ UserReply(1) \/ Tick

SpecToken == InitUsers /\ [][NextToken]_vars

\* ----------------------------------------------------------------- helper
\* Helper.paginate is called with the total_count of a list method, the page
\* and page_size of the query string (page >= 1, 1 <= page_size <= 100) and
\* skip = (page - 1) * page_size.
MaxTotal == 25
MaxPage == 3
MaxPageSize == 10

\* A paginate that rounds total_pages down.
Helper_paginate_floor(total_count, skip, page, page_size) ==
    [total_items |-> total_count,
     total_pages |-> total_count \div page_size,
     current_page |-> page,
     page_size |-> page_size,
     next_page |-> IF skip + page_size < total_count THEN page + 1 ELSE None,
     prev_page |-> IF page > 1 THEN page - 1 ELSE None]

\* Helper.paginate(data, total_count, skip, page, page_size, search): the
\* "pagination" part of what it returns (data and search_term pass through)
Helper_paginate(total_count, skip, page, page_size) ==
    [total_items |-> total_count,
     total_pages |-> (total_count + page_size - 1) \div page_size,
     current_page |-> page,
     page_size |-> page_size,
     next_page |-> IF skip + page_size < total_count THEN page + 1 ELSE None,
     prev_page |-> IF page > 1 THEN page - 1 ELSE None]

\* A list handler shapes its response: skip = (page - 1) * page_size, then
\* Helper.paginate
Paginate ==
    /\ \E total_count \in 0..MaxTotal, page \in 1..MaxPage,
          page_size \in 1..MaxPageSize :
          last' = [skip |-> (page - 1) * page_size,
                   pagination |->
                       Helper_paginate(total_count, (page - 1) * page_size,
                                       page, page_size)]
    /\ UNCHANGED <<entity, docs, now, memberVars, userVars>>

InitPaginate ==
    /\ entity = "" /\ docs = <<>> /\ now = 0
    /\ last = [skip |-> 0, pagination |-> Helper_paginate(0, 0, 1, 1)]
    /\ MembersUnused /\ UsersUnused

NextPaginate == Paginate

SpecPaginate == InitPaginate /\ [][NextPaginate]_vars

\* ---------------------------------------------------------------- routing
\* A mounted router: its name, the paths it serves and the dependencies of
\* its include_router.
Mount(router, paths, dependencies) ==
    [router |-> router, paths |-> paths, dependencies |-> dependencies]

SystemPaths == {"/", "/healthz"}
AuthPaths == {"/auth/login", "/auth/refresh"}
UserPaths == {"/users"}
TribePaths == {"/tribes"}
MemberPaths == {"/members"}
Paths == SystemPaths \cup AuthPaths \cup UserPaths \cup TribePaths \cup MemberPaths

\* app/web.py routing(app), the one main.py applies
web_routing ==
    {Mount("System", SystemPaths, {}), Mount("User", UserPaths, {})}

\* app/api.py routing(app)
api_routing ==
    {Mount("System", SystemPaths, {}), Mount("Auth", AuthPaths, {}),
     Mount("User", UserPaths, {"verify_token"}),
     Mount("Tribe", TribePaths, {"verify_token"})}

\* The bearer tokens a request can carry: none, an access token that was
\* handed out, or one made up without the server's key.
Bearers ==
    {NoToken} \cup {p.access : p \in issued}
        \cup {t \in Tokens : /\ t.key # "SECRET_KEY" /\ t.jws /\ t.sub # None
                             /\ t.exp = MaxClock + 1}

\* A request arrives at the app with or without a bearer token (NoToken: no
\* Authorization header). No mounted router: 404. A router that depends on
\* verify_token: 401 unless the token verifies, and the 401 of a dependency
\* is not the handler's to catch. Otherwise the handler starts.
AppRequest(r) ==
    /\ ureqs[r].kind = "idle"
    /\ \E path \in Paths, token \in Bearers,
          email \in Emails, password \in Passwords, post \in BOOLEAN :
          LET mounts == {m \in app : path \in m.paths}
              mount == CHOOSE m \in mounts : TRUE
              kind == IF path = "/auth/login" THEN "login"
                      ELSE IF path = "/auth/refresh" THEN "refresh"
                      ELSE IF path \in SystemPaths THEN "system"
                      ELSE IF path \in TribePaths THEN "tribes"
                      ELSE IF post THEN "store" ELSE "index"
              f == [UFrame(kind, "handler", None,
                           IF kind \in {"login", "store"} THEN email ELSE NoText,
                           IF kind = "login" THEN password
                           ELSE IF kind = "store" THEN get_password_hash(password)
                           ELSE None,
                           NoText)
                    EXCEPT !.path = path, !.token = token, !.at = now]
          IN  /\ kind = "store" =>
                    Cardinality(DOMAIN usersColl) + UserInsertsPending < MaxUsers
              /\ ureqs' = [ureqs EXCEPT ![r] =
                    IF mounts = {} THEN URespond(f, 404, "Not Found", {})
                    ELSE IF "verify_token" \in mount.dependencies
                            /\ verify_token(token, now).status # 200
                    THEN URespond(f, 401, "Could not validate credentials", {})
                    ELSE IF kind = "store" THEN [f EXCEPT !.pc = "get_by_email"]
                    ELSE f]
    /\ UNCHANGED usersColl /\ UserFrame

\* The handler of a routed request runs: GET / and GET /healthz, GET /users,
\* GET /tribes, POST /auth/login, POST /auth/refresh with a refresh token that
\* was handed out or with none. POST /users goes on in UserStoreLookup.
AppHandle(r) ==
    /\ ureqs[r].pc = "handler"
    /\ LET f == ureqs[r]
       IN  \E answer \in
               CASE f.kind = "system" -> {URespond(f, 200, "", {})}
                 [] f.kind = "index" ->
                      {URespond(f, 200, "",
                          UserModel_get_user_list(usersColl, 0, MaxUsers, <<>>).out)}
                 [] f.kind = "tribes" ->
                      {URespond(f, 200, "",
                          {WithId(docs, i) : i \in
                              Range(Tribe_get_tribe_list(docs, 0, MaxDocs, <<>>,
                                                         FALSE).ids)})}
                 [] f.kind = "login" -> LoginAnswers(f)
                 [] f.kind = "refresh" ->
                      {RefreshAnswer(f, token) :
                          token \in {NoToken} \cup {p.refresh : p \in issued}} :
               ureqs' = [ureqs EXCEPT ![r] = answer]
    /\ issued' = (IF ureqs[r].kind \in {"login", "refresh"}
                  THEN Handed(ureqs'[r]) ELSE issued)
    /\ UNCHANGED <<usersColl, memberVars, repoVars, appVars>>

\* The users collection as an earlier run of the app left it: empty, or with
\* the user that a POST /users {email: "a", password: 1} stored.
Seeded ==
    {EmptyDict,
     UserModel_create(EmptyDict,
         [email |-> <<1>>, full_name |-> NoText,
          password |-> get_password_hash(1), updated_at |-> 0]).coll}

\* routing(FastAPI(...)): the app is built by web.py's routing or by api.py's
InitRouting ==
    /\ app \in {web_routing, api_routing} /\ DbUnused
    /\ usersColl \in Seeded
    /\ ureqs = [r \in Slots |-> UIdle]
    /\ issued = {}
    /\ MembersUnused /\ RepoUnused /\ now = 0

NextRouting ==
    \/ AppRequest(1) \/ AppHandle(1)
    \/ UserStoreLookup(1) \/ UserStoreCreate(1)
    \/ UserReply(1)
    \/ Tick

SpecRouting == InitRouting /\ [][NextRouting]_vars

\* ------------------------------------------------------------------ claims
ListedIn(coll, m, g) == m \in Range(MembersOf(coll[g]))
Listed(m, g) == ListedIn(lifegroupsColl, m, g)
Finished(f, kinds) == f.kind \in kinds /\ f.pc = "done"

\* C1: between requests, each Lifegroup's members list holds exactly the ids
\* of the Members whose stored lifegroup assignment is that Lifegroup.
C1_MembersExact ==
    AllIdle =>
        \A g \in DOMAIN lifegroupsColl : \A m \in MemberIds :
            Listed(m, g) <=>
                (m \in DOMAIN membersColl /\ membersColl[m].life_group_id = g)

\* C2: a POST /members with lifegroup_id = L, L an existing Lifegroup that is
\* not deleted, ends with L.members holding the new member's id exactly once
\* and every id it held before.
C2_StoreAppends ==
    \A r \in Slots :
        LET f == reqs[r]
        IN  Finished(f, {"store"}) /\ f.found =>
               /\ Count(f.result, MembersOf(lifegroupsColl[f.lifegroup_id])) = 1
               /\ Range(f.existing_members) \subseteq
                     Range(MembersOf(lifegroupsColl[f.lifegroup_id]))

\* C3: a PUT /members/{id} with lifegroup_id = B for a member listed in a
\* different Lifegroup A ends with A.members without the member's id and
\* B.members holding it exactly once.
C3_MoveMember ==
    \A r \in Slots :
        LET f == reqs[r]
        IN  /\ Finished(f, {"update"})
            /\ f.found /\ f.old_lg # None /\ f.old_lg # f.lifegroup_id
            => /\ ~Listed(f.member_id, f.old_lg)
               /\ Count(f.member_id, MembersOf(lifegroupsColl[f.lifegroup_id])) = 1

\* C4: after a successful DELETE /members/{id} (204) no Lifegroup's members
\* list holds that member's id.
C4_DeleteUnlists ==
    \A r \in Slots :
        LET f == reqs[r]
        IN  Finished(f, {"delete"}) /\ f.status = 204 =>
               \A g \in DOMAIN lifegroupsColl : ~Listed(f.member_id, g)

\* C5: a member id is in the members list of at most one Lifegroup.
C5_AtMostOneLifegroup ==
    \A m \in MemberIds :
        Cardinality({g \in DOMAIN lifegroupsColl : Listed(m, g)}) <= 1

\* C6: once the member write of a create or update carrying lifegroup_id = L
\* (L an existing Lifegroup) is done, the stored Member record's lifegroup
\* assignment is L.
C6_AssignmentStored ==
    \A r \in Slots :
        LET f == reqs[r]
        IN  Finished(f, {"store", "update"}) /\ f.result # None /\ f.found =>
               membersColl[f.result].life_group_id = f.lifegroup_id

\* C7: no step of a member create or update whose lifegroup_id names a
\* Lifegroup that is absent or soft-deleted changes any Lifegroup, and the
\* request ends with 404.
TargetAbsent(f) ==
    /\ f.lifegroup_id \in LifegroupIds
    /\ \/ f.lifegroup_id \notin DOMAIN lifegroupsColl
       \/ lifegroupsColl[f.lifegroup_id].deleted_at

C7_AbsentTargetNotFound ==
    [][\A r \in Slots :
          LET f == reqs[r]
          IN  /\ f.kind \in {"store", "update"} /\ f.pc # "done"
              /\ f.member_id # BadId
              /\ TargetAbsent(f)
              => /\ lifegroupsColl' = lifegroupsColl
                 /\ reqs'[r].pc = "done" => reqs'[r].status = 404]_vars

\* C7 witness: an update of a member that a Lifegroup lists, towards a
\* soft-deleted Lifegroup, has ended with 404 "Lifegroup not found".
C7_Witness ==
    \E r \in Slots :
        LET f == reqs[r]
        IN  /\ Finished(f, {"update"})
            /\ f.status = 404 /\ f.detail = "Lifegroup not found"
            /\ f.lifegroup_id \in DOMAIN lifegroupsColl
            /\ lifegroupsColl[f.lifegroup_id].deleted_at
            /\ \E g \in DOMAIN lifegroupsColl : Listed(f.member_id, g)

\* C8: when a member create or update ends with an error after its member
\* write, the written Member record is still stored, readable (not deleted)
\* and holds the data of the request.
C8_MemberWriteKept ==
    \A r \in Slots :
        LET f == reqs[r]
        IN  /\ Finished(f, {"store", "update"})
            /\ f.status >= 400 /\ f.result # None
            => /\ f.result \in DOMAIN membersColl
               /\ ~membersColl[f.result].deleted_at
               /\ f.first_name # None =>
                     membersColl[f.result].first_name = f.first_name

\* C8 witness: a create whose target Lifegroup is absent has ended with 404
\* and the Member it inserted is stored.
C8_Witness ==
    \E r \in Slots :
        LET f == reqs[r]
        IN  /\ Finished(f, {"store"})
            /\ f.status = 404 /\ f.detail = "Lifegroup not found"
            /\ f.result \in DOMAIN membersColl

\* C9 as claimed: when a member update fails with "Lifegroup not found", no
\* Lifegroup lists the member any more (it was removed before the lookup).
C9_RemovedBeforeLookup ==
    \A r \in Slots :
        LET f == reqs[r]
        IN  /\ Finished(f, {"update"})
            /\ f.status = 404 /\ f.detail = "Lifegroup not found"
            => \A g \in DOMAIN lifegroupsColl : ~Listed(f.member_id, g)

\* C9 amended: the target Lifegroup is looked up before the member's previous
\* Lifegroup is searched or written: when the lookup ends the request, no
\* previous Lifegroup was searched for and every Lifegroup that listed the
\* member still lists it.
C9_LookupBeforeRemoval ==
    [][\A r \in Slots :
          LET f == reqs[r]
          IN  f.kind = "update" /\ f.pc = "lookup" /\ reqs'[r].pc = "done" =>
                 /\ reqs'[r].old_lg = None
                 /\ \A g \in DOMAIN lifegroupsColl :
                       Listed(f.member_id, g) =>
                          /\ g \in DOMAIN lifegroupsColl'
                          /\ ListedIn(lifegroupsColl', f.member_id, g)]_vars

\* C9 witness: an update has failed with "Lifegroup not found" and a Lifegroup
\* that is not deleted lists the member.
C9_Witness ==
    \E r \in Slots :
        LET f == reqs[r]
        IN  /\ Finished(f, {"update"})
            /\ f.status = 404 /\ f.detail = "Lifegroup not found"
            /\ \E g \in DOMAIN lifegroupsColl :
                  ~lifegroupsColl[g].deleted_at /\ Listed(f.member_id, g)

\* C10: two concurrent member create/update requests that assign two
\* different members to the same Lifegroup, and have both read its members
\* list, both succeed.
SameTarget(f1, f2) ==
    /\ f1.kind \in {"store", "update"} /\ f2.kind \in {"store", "update"}
    /\ f1.found /\ f2.found
    /\ f1.lifegroup_id = f2.lifegroup_id
    /\ f1.result # f2.result

C10_BothSucceed ==
    \A r1, r2 \in Slots :
        LET f1 == reqs[r1]
            f2 == reqs[r2]
        IN  r1 # r2 /\ SameTarget(f1, f2) /\ f1.pc = "done" /\ f2.pc = "done" =>
               f1.status < 300 /\ f2.status < 300

\* C10, the lost update: both requests have succeeded and the Lifegroup's
\* members list lacks one of the two ids.
C10_LostUpdate ==
    \E r1, r2 \in Slots :
        LET f1 == reqs[r1]
            f2 == reqs[r2]
        IN  /\ r1 # r2 /\ SameTarget(f1, f2)
            /\ f1.pc = "done" /\ f2.pc = "done"
            /\ f1.status < 300 /\ f2.status < 300
            /\ ~Listed(f1.result, f1.lifegroup_id)

C10_NoLostUpdate == ~C10_LostUpdate

\* C10: both requests hold the members list they read and neither has
\* written yet: nothing has serialised the two read-modify-writes.
C10_BothRead ==
    \E r1, r2 \in Slots :
        /\ r1 # r2 /\ SameTarget(reqs[r1], reqs[r2])
        /\ reqs[r1].pc \in {"write", "write_new"}
        /\ reqs[r2].pc \in {"write", "write_new"}


\* The deletion marker of a document: a deleted_at stamp (members, lifegroups),
\* deleted = True (tribes).
SoftDeleted(doc) ==
    IF entity = "tribes" THEN Has(doc, "deleted") /\ doc["deleted"] = TRUE
    ELSE Has(doc, "deleted_at") /\ doc["deleted_at"] # None

\* C11: delete(id) with hard_delete=false on a document that is already
\* soft-deleted returns True without raising and leaves the collection as it
\* was; it raises 404 only when the collection has no document with that id.
C11_SoftDeleteIdempotent ==
    (last.op = "delete" /\ ~last.flag) =>
        /\ (last.id \in DOMAIN last.before /\ SoftDeleted(last.before[last.id])) =>
              (last.status = 200 /\ docs = last.before)
        /\ (last.status = 404) => (last.id \notin DOMAIN last.before)

\* A soft delete has just returned True for a document that was soft-deleted
\* when it was called.
C11_Witness ==
    /\ last.op = "delete" /\ ~last.flag /\ last.status = 200
    /\ last.id \in DOMAIN last.before
    /\ SoftDeleted(last.before[last.id])

\* C12: a list query with include_deleted=false returns no soft-deleted
\* document and counts none in total_count, whatever skip, limit and search
\* term it is given.
C12_ListExcludesDeleted ==
    (last.op = "list" /\ ~last.flag) =>
        /\ \A i \in Range(last.ids) : ~SoftDeleted(docs[i])
        /\ last.total <= Cardinality({i \in DOMAIN docs : ~SoftDeleted(docs[i])})

\* The same without a search term.
C12_PlainListExcludesDeleted ==
    (last.op = "list" /\ ~last.flag /\ last.update_data.name = <<>>) =>
        /\ \A i \in Range(last.ids) : ~SoftDeleted(docs[i])
        /\ last.total = Cardinality({i \in DOMAIN docs : ~SoftDeleted(docs[i])})

\* A list query with a search term ran over a collection that holds a
\* soft-deleted document.
C12_Witness ==
    /\ last.op = "list" /\ ~last.flag /\ last.update_data.name # <<>>
    /\ \E i \in DOMAIN docs : SoftDeleted(docs[i])

\* The document is returned by get_by_id and by the list query of the first
\* page, both with include_deleted=false.
Visible(coll, id) ==
    /\ Repo_get_by_id(coll, id, FALSE).ids = <<id>>
    /\ id \in Range(Repo_list(coll, 0, MaxDocs, <<>>, FALSE).ids)

\* C13: restore(id) of a soft-deleted document succeeds, clears its deletion
\* marker and makes it visible again to get_by_id and to list queries with
\* include_deleted=false, and touches no other document; restore(id) with a
\* well-formed id of a document that is not soft-deleted (or of none) raises
\* 404 and leaves the collection as it was.
C13_RestoreRoundTrip ==
    (last.op = "restore" /\ ObjectId_is_valid(last.id)) =>
        LET id == last.id
            b == last.before
        IN  IF id \in DOMAIN b /\ SoftDeleted(b[id])
            THEN /\ last.status = 200
                 /\ ~Visible(b, id)
                 /\ ~SoftDeleted(docs[id])
                 /\ Visible(docs, id)
                 /\ \A i \in DOMAIN b \ {id} : docs[i] = b[i]
                 /\ DOMAIN docs = DOMAIN b
            ELSE last.status = 404 /\ docs = b

\* A restore has just succeeded on a soft-deleted document.
C13_Witness ==
    /\ last.op = "restore" /\ last.status = 200
    /\ last.id \in DOMAIN last.before
    /\ SoftDeleted(last.before[last.id])

\* A restore has just been refused for a document that is not soft-deleted.
C13_WitnessRefused ==
    /\ last.op = "restore" /\ last.status = 404
    /\ last.id \in DOMAIN last.before

\* The fields of an update body that model_dump keeps.
Supplied(update_data) == {k \in DOMAIN update_data : update_data[k] # NoText}

\* C14: update(id, partialData) that succeeds gives the supplied fields their
\* new values, stamps updated_at and leaves every other field of the document,
\* and every other document, as it was; an update that raises writes nothing;
\* and a soft-deleted document is refused with 404 unless
\* allow_update_deleted is set.
C14_UpdateFrame ==
    (last.op = "update") =>
        LET id == last.id
            b == last.before
            given == Supplied(last.update_data)
        IN  /\ (last.status = 200) =>
                  /\ id \in DOMAIN b
                  /\ DOMAIN docs = DOMAIN b
                  /\ \A i \in DOMAIN b \ {id} : docs[i] = b[i]
                  /\ DOMAIN docs[id] = DOMAIN b[id]
                  /\ \A k \in DOMAIN b[id] \ (given \cup {"updated_at"}) :
                        docs[id][k] = b[id][k]
                  /\ \A k \in given : docs[id][k] = last.update_data[k]
                  /\ docs[id]["updated_at"] = now - 1
            /\ (last.status # 200) => (docs = b)
            /\ (id \in DOMAIN b /\ SoftDeleted(b[id]) /\ ~last.flag) =>
                  (last.status = 404)

\* An update with one field supplied has just succeeded on a document whose
\* other field differs from the one supplied.
C14_Witness ==
    /\ last.op = "update" /\ last.status = 200
    /\ Supplied(last.update_data) = {"name"}
    /\ docs[last.id]["description"] # docs[last.id]["name"]

\* An update of a soft-deleted document has just been refused.
C14_WitnessDeleted ==
    /\ last.op = "update" /\ last.status = 404 /\ ~last.flag
    /\ last.id \in DOMAIN last.before
    /\ SoftDeleted(last.before[last.id])

\* C15: a member request that carries a malformed id (the path id, or the
\* lifegroup_id of the body) is answered 400 by the first step its handler
\* takes, before any repository call, and that step writes nothing.
C15_MalformedIdRejectedFirst ==
    [][\A r \in Slots :
          LET f == reqs[r]
          IN  (/\ f.kind \in {"store", "update", "delete"}
               /\ f.pc # "done"
               /\ (f.member_id = BadId \/ f.lifegroup_id = BadId)
               /\ reqs'[r] # f)
              => (/\ reqs'[r].pc = "done"
                  /\ reqs'[r].status = 400
                  /\ membersColl' = membersColl
                  /\ lifegroupsColl' = lifegroupsColl)]_vars

\* A store with a malformed lifegroup_id has been answered 400 after it
\* inserted its member.
C15_Witness ==
    \E r \in Slots :
        /\ reqs[r].kind = "store" /\ reqs[r].pc = "done"
        /\ reqs[r].lifegroup_id = BadId
        /\ reqs[r].status = 400
        /\ reqs[r].result \in DOMAIN membersColl

\* C16: no document that a list or get operation of UserModel returns
\* (get_user_list, get_by_id, get_all, the read-back of create, update and
\* update_password) carries the password.
C16_NoPasswordReturned ==
    \A r \in Slots : \A d \in ureqs[r].out : ~Has(d, "password")

\* The same for every operation but get_all.
C16_ProjectedReads ==
    \A r \in Slots :
        (ureqs[r].kind # "get_all") => \A d \in ureqs[r].out : ~Has(d, "password")

\* get_all has returned the documents of a collection that is not empty.
C16_Witness ==
    \E r \in Slots : ureqs[r].kind = "get_all" /\ ureqs[r].out # {}

\* C17: the stored password of a user changes only in the write of a
\* password update (PATCH /users/{id}), which stores a hash of the password
\* submitted; no other step, the write of PUT /users/{id} among them, changes it.
C17_PasswordChangesOnlyByPatch ==
    [][\A i \in DOMAIN usersColl \cap DOMAIN usersColl' :
          (usersColl'[i]["password"] # usersColl[i]["password"]) =>
              \E r \in Slots :
                  /\ ureqs[r].kind = "update_password" /\ ureqs[r].pc = "write"
                  /\ ureqs[r].user_id = i
                  /\ ureqs'[r].pc = "done"
                  /\ usersColl'[i]["password"] = get_password_hash(ureqs[r].password)
                  /\ IsHash(usersColl'[i]["password"])]_vars

\* PUT /users/{id} with a password in its body has been answered 200.
C17_Witness ==
    \E r \in Slots :
        /\ ureqs[r].kind = "update" /\ ureqs[r].pc = "done" /\ ureqs[r].status = 200
        /\ ureqs[r].password # None

\* C18: a POST /users whose lookup finds a user with its email is answered
\* 422 'Email already exists' by that step, which writes nothing, and the
\* request takes no further step but its reply: create is not called.
C18_DuplicateEmailRejected ==
    [][\A r \in Slots :
          LET f == ureqs[r]
          IN  /\ (/\ f.kind = "store" /\ f.pc = "get_by_email"
                   /\ \E i \in DOMAIN usersColl : usersColl[i]["email"] = f.email
                   /\ ureqs'[r] # f)
                  => (/\ ureqs'[r].pc = "done"
                      /\ ureqs'[r].status = 422
                      /\ ureqs'[r].detail = "Email already exists"
                      /\ usersColl' = usersColl)
              /\ (f.kind = "store" /\ f.status = 422 /\ ureqs'[r] # f)
                  => (ureqs'[r] = UIdle /\ usersColl' = usersColl)]_vars

\* A POST /users has been answered 422 while a user with its email is stored.
C18_Witness ==
    \E r \in Slots :
        /\ ureqs[r].kind = "store" /\ ureqs[r].pc = "done" /\ ureqs[r].status = 422
        /\ \E i \in DOMAIN usersColl : usersColl[i]["email"] = ureqs[r].email

\* C19: no two stored users have the same email.
C19_EmailUnique ==
    \A i, j \in DOMAIN usersColl :
        (i # j) => (usersColl[i]["email"] # usersColl[j]["email"])

\* Two POST /users with the same email have both passed their lookup.
C19_Witness ==
    /\ \A r \in Slots : ureqs[r].kind = "store" /\ ureqs[r].pc = "create"
    /\ \A r, q \in Slots : ureqs[r].email = ureqs[q].email

\* The stored users whose email and password a login frame submitted.
LoggingIn(f) ==
    {i \in DOMAIN usersColl :
        /\ usersColl[i]["email"] = f.email
        /\ usersColl[i]["password"] = get_password_hash(f.password)}

\* The login of frame f gave a token to the user whose credentials it got.
LoggedIn(f) == f.status = 200 /\ f.user_id \in LoggingIn(f)

\* C20: a login with the email and the password of a stored user answers 200
\* with an access token, and verify_token of that token before its expiry
\* succeeds with the id of that user as its subject.
C20_LoginTokenVerifies ==
    \A r \in Slots :
        LET f == ureqs[r]
        IN  /\ (Finished(f, {"login"}) /\ LoggingIn(f) # {}) =>
                  /\ LoggedIn(f)
                  /\ \A t \in f.at..(f.token.exp - 1) :
                        verify_token(f.token, t) =
                            [status |-> 200, email |-> f.user_id]
            /\ (Finished(f, {"verify"}) /\ now < f.token.exp) =>
                  /\ LoggedIn(f)
                  /\ f.out = {[status |-> 200, email |-> f.user_id]}

\* The same while no two stored users share an email.
C20_LoginWhenEmailsUnique == C19_EmailUnique => C20_LoginTokenVerifies

\* A login was answered 200 and its token verified after the clock moved on.
C20_Witness ==
    \E r \in Slots :
        /\ Finished(ureqs[r], {"verify"})
        /\ ureqs[r].at < now /\ now < ureqs[r].token.exp
        /\ ureqs[r].out = {[status |-> 200, email |-> ureqs[r].user_id]}

\* A login with the email and the password of a stored user is refused.
C20_WitnessRefused ==
    \E r \in Slots :
        /\ Finished(ureqs[r], {"login"})
        /\ LoggingIn(ureqs[r]) # {}
        /\ ureqs[r].status # 200

\* A token that verification has to refuse at time t.
Rejectable(token, t) ==
    \/ token.exp <= t
    \/ token.key # "SECRET_KEY"
    \/ ~token.jws
    \/ token.sub = None

\* C21: a presented token that is expired, signed with another key, malformed
\* or without a subject is answered 401 and no subject.
C21_BadTokenRejected ==
    \A r \in Slots :
        LET f == ureqs[r]
        IN  (Finished(f, {"present"}) /\ Rejectable(f.token, f.at)) =>
               f.out = {[status |-> 401, email |-> None]}

\* A well-formed token of the server's key with a subject was presented after
\* its expiry and refused.
C21_Witness ==
    \E r \in Slots :
        LET f == ureqs[r]
        IN  /\ Finished(f, {"present"})
            /\ f.token.jws /\ f.token.key = "SECRET_KEY" /\ f.token.sub # None
            /\ 0 < f.token.exp /\ f.token.exp <= f.at
            /\ f.out = {[status |-> 401, email |-> None]}

\* A token that is none of these was presented and accepted.
C21_WitnessAccepted ==
    \E r \in Slots :
        /\ Finished(ureqs[r], {"present"})
        /\ ~Rejectable(ureqs[r].token, ureqs[r].at)
        /\ \E d \in ureqs[r].out : d.status = 200

\* The access tokens handed out so far with the subject sub.
AccessTokensOf(sub) == {p.access : p \in {q \in issued : q.access.sub = sub}}

\* C22: a refresh that is answered 200 returns an access token that no login
\* and no refresh has handed out for that user before, and a refresh that is
\* refused returns no token.
C22_RefreshedTokenIsNew ==
    [][\A r \in Slots :
          (ureqs[r].kind = "idle" /\ ureqs'[r].kind = "refresh") =>
              IF ureqs'[r].status = 200
              THEN ureqs'[r].token \notin AccessTokensOf(ureqs'[r].token.sub)
              ELSE /\ ureqs'[r].token = NoToken
                   /\ ureqs'[r].refresh = NoToken
                   /\ issued' = issued]_vars

\* A refresh whose token does not verify returns no token.
C22_InvalidRefreshGivesNothing ==
    \A r \in Slots :
        (Finished(ureqs[r], {"refresh"}) /\ ureqs[r].status # 200) =>
            ureqs[r].token = NoToken /\ ureqs[r].refresh = NoToken

\* A handed-out refresh token was exchanged and answered 200.
C22_Witness ==
    \E r \in Slots :
        /\ Finished(ureqs[r], {"refresh"})
        /\ ureqs[r].status = 200
        /\ ureqs[r].token.sub \in DOMAIN usersColl

\* ceil(a / b) for a >= 0 and b >= 1: the least q with q * b >= a
Ceil(a, b) == CHOOSE q \in 0..a : q * b >= a /\ \A k \in 0..a : k * b >= a => q <= k

\* C23: paginate gives total_pages = ceil(total_items / page_size), next_page
\* = page + 1 exactly when skip + page_size < total_items and null otherwise,
\* prev_page = page - 1 exactly when page > 1 and null otherwise.
C23_Pagination ==
    LET g == last.pagination
    IN  /\ g.total_pages = Ceil(g.total_items, g.page_size)
        /\ g.next_page =
              (IF last.skip + g.page_size < g.total_items
               THEN g.current_page + 1 ELSE None)
        /\ g.prev_page = (IF g.current_page > 1 THEN g.current_page - 1 ELSE None)

\* total 25, size 10, page 3: three pages, no next page, previous page 2
C23_Witness ==
    /\ last.pagination.total_items = 25 /\ last.pagination.page_size = 10
    /\ last.pagination.current_page = 3 /\ last.skip = 20
    /\ last.pagination.total_pages = 3
    /\ last.pagination.next_page = None /\ last.pagination.prev_page = 2

\* total 25, size 10, page 1: next page 2, no previous page
C23_WitnessFirst ==
    /\ last.pagination.total_items = 25 /\ last.pagination.page_size = 10
    /\ last.pagination.current_page = 1
    /\ last.pagination.next_page = 2 /\ last.pagination.prev_page = None

\* A step that ends the show, update or delete request of slot r for a
\* well-formed user id that no stored user has.
EndsOnAbsentUser(r) ==
    /\ ureqs[r].pc # "done" /\ ureqs'[r].pc = "done"
    /\ ureqs'[r].kind \in {"show", "update", "delete"}
    /\ ObjectId_is_valid(ureqs'[r].user_id)
    /\ ureqs'[r].user_id \notin DOMAIN usersColl

\* C24: a show, update or delete request for a user that is absent is answered
\* 404 and writes nothing.
C24_AbsentIsNotFound ==
    [][\A r \in Slots :
          EndsOnAbsentUser(r) =>
              ureqs'[r].status = 404 /\ usersColl' = usersColl]_vars

\* The same without the status: the handler raises its 404 and writes nothing.
C24_AbsentNoWrite ==
    [][\A r \in Slots :
          EndsOnAbsentUser(r) =>
              ureqs'[r].raised = 404 /\ usersColl' = usersColl]_vars

\* An update for an absent user has been answered.
C24_Witness ==
    \E r \in Slots :
        /\ Finished(ureqs[r], {"update"})
        /\ ObjectId_is_valid(ureqs[r].user_id)
        /\ ureqs[r].user_id \notin DOMAIN usersColl
        /\ ureqs[r].raised = 404

\* The request of frame f came without a token that verifies.
Tokenless(f) == verify_token(f.token, f.at).status # 200

\* C25: a request to an endpoint of the app under /users, /tribes or /members
\* without a valid bearer token is answered 401 and never reaches its handler.
C25_TokenRequired ==
    \A r \in Slots :
        LET f == ureqs[r]
        IN  (/\ f.path \in UserPaths \cup TribePaths \cup MemberPaths
             /\ \E m \in app : f.path \in m.paths
             /\ Tokenless(f))
               => (f.pc = "done" /\ f.status = 401)

\* The same for /users and /tribes of the app that api.py's routing builds.
C25_ApiRoutingRequiresToken ==
    \A r \in Slots :
        LET f == ureqs[r]
        IN  (app = api_routing /\ f.path \in UserPaths \cup TribePaths
                /\ Tokenless(f))
               => (f.pc = "done" /\ f.status = 401)

\* The system paths answer a request without a token under both routings.
C25_SystemOpen ==
    \A r \in Slots :
        (ureqs[r].path \in SystemPaths /\ ureqs[r].pc = "done")
            => ureqs[r].status = 200

\* A request to /users without a token was refused with 401.
C25_Witness ==
    \E r \in Slots :
        /\ ureqs[r].path \in UserPaths /\ ureqs[r].token = NoToken
        /\ ureqs[r].pc = "done" /\ ureqs[r].status = 401

\* A request to /users without a token created a user.
C25_WitnessOpen ==
    \E r \in Slots :
        /\ ureqs[r].path \in UserPaths /\ ureqs[r].token = NoToken
        /\ Finished(ureqs[r], {"store"}) /\ ureqs[r].status = 200
        /\ usersColl # EmptyDict

\* A request to /users with a token that a login handed out was let through
\* by verify_token and answered 200.
C25_WitnessAuthorized ==
    \E r \in Slots :
        /\ app = api_routing /\ ureqs[r].path \in UserPaths
        /\ ~Tokenless(ureqs[r])
        /\ ureqs[r].pc = "done" /\ ureqs[r].status = 200

\* The stored users whose email or whose full_name contains the term,
\* whatever the case of the letters.
EitherFieldMatches(term) ==
    {i \in DOMAIN usersColl :
        \/ Matches(term, usersColl[i]["email"])
        \/ /\ usersColl[i]["full_name"] # NoText
           /\ Matches(term, usersColl[i]["full_name"])}

\* A GET /users with a search term whose first page has room for every user.
SearchedAll(f) ==
    /\ Finished(f, {"index"}) /\ f.email # <<>>
    /\ f.page = 1 /\ f.page_size = MaxUsers

\* C26: a user search returns exactly the users whose email or full_name
\* contains the term.
C26_SearchEitherField ==
    \A r \in Slots :
        SearchedAll(ureqs[r]) =>
            {d["_id"] : d \in ureqs[r].out} = EitherFieldMatches(ureqs[r].email)

\* The half that holds: no user is returned that matches in neither field.
C26_NoStrangers ==
    \A r \in Slots :
        SearchedAll(ureqs[r]) =>
            {d["_id"] : d \in ureqs[r].out} \subseteq
                EitherFieldMatches(ureqs[r].email)

\* A search found a user by a term that both its email and full_name contain.
C26_Witness ==
    \E r \in Slots :
        /\ SearchedAll(ureqs[r])
        /\ ureqs[r].out # {}

\* A search for a term in the email of a user returned nobody.
C26_WitnessMissed ==
    \E r \in Slots :
        /\ SearchedAll(ureqs[r])
        /\ ureqs[r].out = {}
        /\ \E i \in DOMAIN usersColl : Matches(ureqs[r].email, usersColl[i]["email"])

\* How often the member id m is in the members list of lifegroup g.
TimesListed(m, g) ==
    Cardinality({i \in DOMAIN MembersOf(lifegroupsColl[g]) :
                    MembersOf(lifegroupsColl[g])[i] = m})

C28_TokenAuthenticatesOwner ==
    \A r \in Slots :
        LET f == ureqs[r]
        IN  (Finished(f, {"profile"}) /\ now < f.token.exp) =>
               /\ f.status = 200
               /\ \A d \in f.out : d["_id"] = f.user_id
               /\ f.out # {}

\* The profile of another user is never returned.
C28_NeverAnotherUser ==
    \A r \in Slots :
        Finished(ureqs[r], {"profile"}) =>
            \A d \in ureqs[r].out : d["_id"] = ureqs[r].user_id

\* A stored user logged in and presented the token before its expiry.
C28_Witness ==
    \E r \in Slots :
        /\ Finished(ureqs[r], {"profile"})
        /\ now < ureqs[r].token.exp
        /\ ureqs[r].user_id \in DOMAIN usersColl
        /\ ureqs[r].detail = "User not found"

\* ------------------------------------------------------ database handle
\* config/database.py keeps one client and one database handle in module
\* globals. A client is the number of its construction and client[DB_NAME]
\* carries the number of its client. Every await of a command is one step;
\* whether the server answers it is not in the hands of the program.

\* calls of get_db / connect_to_mongo in flight at the same time
MaxDbCalls == 2
\* AsyncIOMotorClient objects that are ever constructed
MaxClients == 3
DbSlots == 1..MaxDbCalls

DbIdle ==
    [pc |-> "idle", stage |-> "", pinged |-> None, failed |-> None,
     handle |-> None, out |-> ""]

\* What the caller of connect_to_mongo does with its answer, up to its next
\* await: lifespan prints, get_db line 69-74 raises or pings db_instance,
\* get_db line 78-80 returns db_instance or raises.
AfterConnect(f, ok, db) ==
    CASE f.stage = "startup" ->
            [f EXCEPT !.pc = "done", !.out = IF ok THEN "True" ELSE "False"]
      [] f.stage = "first" ->
            IF ~ok THEN [f EXCEPT !.pc = "done", !.out = "RuntimeError"]
            ELSE IF db = None
                 THEN [f EXCEPT !.pc = "done", !.out = "AttributeError"]
                 ELSE [f EXCEPT !.pc = "ping", !.pinged = db]
      [] OTHER ->
            IF ok THEN [f EXCEPT !.pc = "done", !.out = "db", !.handle = db]
            ELSE [f EXCEPT !.pc = "done", !.out = "RuntimeError"]

\* connect_to_mongo up to its first await: True at once when a client is
\* cached, else a new client and its database handle.
connect_to_mongo(r, f) ==
    IF client # None
    THEN /\ dbreqs' = [dbreqs EXCEPT ![r] = AfterConnect(f, TRUE, db_instance)]
         /\ UNCHANGED <<client, db_instance, clients>>
    ELSE /\ clients < MaxClients
         /\ clients' = clients + 1
         /\ client' = clients + 1
         /\ db_instance' = clients + 1
         /\ dbreqs' = [dbreqs EXCEPT ![r] = [f EXCEPT !.pc = "connect_ping"]]

\* connect_to_mongo's except branches: both globals are cleared.
ConnectFailed(r) ==
    /\ client' = None
    /\ db_instance' = None
    /\ dbreqs' = [dbreqs EXCEPT ![r] = AfterConnect(dbreqs[r], FALSE, None)]
    /\ UNCHANGED clients

DbFrame == UNCHANGED <<memberVars, repoVars, usersColl, ureqs, issued, app>>

AllDbIdle == \A r \in DbSlots : dbreqs[r].pc = "idle"
\* lifespan has not reached its yield: no request is served yet
StartingUp ==
    \E r \in DbSlots : dbreqs[r].stage = "startup" /\ dbreqs[r].pc # "done"

\* lifespan, before the first request is served
ConnectStartup(r) ==
    /\ AllDbIdle
    /\ clients = 0
    /\ connect_to_mongo(r, [dbreqs[r] EXCEPT !.stage = "startup"])
    /\ DbFrame

\* get_db up to its first await
GetDbBegin(r) ==
    /\ dbreqs[r].pc = "idle"
    /\ ~StartingUp
    /\ IF db_instance = None
       THEN connect_to_mongo(r, [dbreqs[r] EXCEPT !.stage = "first"])
       ELSE /\ dbreqs' = [dbreqs EXCEPT ![r] =
                            [@ EXCEPT !.pc = "ping", !.pinged = db_instance]]
            /\ UNCHANGED <<client, db_instance, clients>>
    /\ DbFrame

\* await db_instance.command({"ping": 1}) of connect_to_mongo
ConnectPing(r) ==
    /\ dbreqs[r].pc = "connect_ping"
    /\ \E ok \in BOOLEAN :
          IF ok
          THEN /\ dbreqs' = [dbreqs EXCEPT ![r].pc = "connect_ismaster"]
               /\ UNCHANGED <<client, db_instance, clients>>
          ELSE ConnectFailed(r)
    /\ DbFrame

\* await db_instance.command("ismaster") of connect_to_mongo and its return
ConnectIsmaster(r) ==
    /\ dbreqs[r].pc = "connect_ismaster"
    /\ \E ok \in BOOLEAN :
          IF ok
          THEN /\ dbreqs' = [dbreqs EXCEPT ![r] =
                               AfterConnect(dbreqs[r], TRUE, db_instance)]
               /\ UNCHANGED <<client, db_instance, clients>>
          ELSE ConnectFailed(r)
    /\ DbFrame

\* await db_instance.command("ping") of get_db: the handle is returned, or
\* ConnectionFailure sends get_db to connect_to_mongo again.
GetDbPing(r) ==
    /\ dbreqs[r].pc = "ping"
    /\ \E ok \in BOOLEAN :
          IF ok
          THEN /\ dbreqs' = [dbreqs EXCEPT ![r] =
                               [@ EXCEPT !.pc = "done", !.out = "db",
                                         !.handle = db_instance]]
               /\ UNCHANGED <<client, db_instance, clients>>
          ELSE connect_to_mongo(r, [dbreqs[r] EXCEPT !.stage = "reconnect",
                                                     !.failed = dbreqs[r].pinged])
    /\ DbFrame

\* lifespan, after the last request was served
close_mongo_connection ==
    /\ AllDbIdle
    /\ client # None
    /\ client' = None
    /\ db_instance' = None
    /\ UNCHANGED <<clients, dbreqs>>
    /\ DbFrame

\* the caller has its answer
DbReturn(r) ==
    /\ dbreqs[r].pc = "done"
    /\ dbreqs' = [dbreqs EXCEPT ![r] = DbIdle]
    /\ UNCHANGED <<client, db_instance, clients>>
    /\ DbFrame

InitDb ==
    /\ client = None /\ db_instance = None /\ clients = 0
    /\ dbreqs = [r \in DbSlots |-> DbIdle]
    /\ now = 0 /\ MembersUnused /\ RepoUnused
    /\ usersColl = <<>> /\ ureqs = <<>> /\ issued = {} /\ app = {}

NextDb ==
    \E r \in DbSlots :
        \/ ConnectStartup(r)
        \/ GetDbBegin(r)
        \/ ConnectPing(r)
        \/ ConnectIsmaster(r)
        \/ GetDbPing(r)
        \/ close_mongo_connection
        \/ DbReturn(r)

SpecDb == InitDb /\ [][NextDb]_vars

\* get_db answered with a handle after its ping had failed.
AnsweredAfterFailedPing(f) ==
    f.pc = "done" /\ f.out = "db" /\ f.failed # None

\* C29: when the ping of get_db fails, the handle that get_db returns is not
\* the handle whose ping failed: a new client has replaced the cached one.
C29_FailedHandleNotReturned ==
    \A r \in DbSlots :
        AnsweredAfterFailedPing(dbreqs[r]) =>
            dbreqs[r].handle # dbreqs[r].failed

\* C29, second half: the cached client is None exactly when the cached
\* db_instance is None.
C29_CacheConsistent ==
    (client = None) <=> (db_instance = None)

\* A ping of get_db failed and get_db answered with a handle.
C29_Witness ==
    \E r \in DbSlots : AnsweredAfterFailedPing(dbreqs[r])

\* After a failed ping get_db constructed a client and returned its handle.
C29_WitnessReplaced ==
    \E r \in DbSlots :
        /\ AnsweredAfterFailedPing(dbreqs[r])
        /\ dbreqs[r].handle \notin {None, dbreqs[r].failed}

\* The last repository call was an update of a stored document whose
\* update_data supplies no field.
EmptyUpdateCalled ==
    /\ last.op = "update"
    /\ last.update_data = NoUpdate
    /\ last.id \in DOMAIN last.before

\* C30: a repository update (Member, Lifegroup, Tribe) whose update data
\* supplies no field is rejected with 400 'No update data provided' and
\* leaves the stored record, its updated_at included, unchanged.
C30_EmptyUpdateRejected ==
    EmptyUpdateCalled =>
        /\ last.status = 400
        /\ last.detail = "No update data provided"
        /\ docs = last.before

\* C30 for UserModel.update: PUT /users/{user_id} of a stored user with a
\* body that supplies no field is answered 'No update data provided'.
C30_UserEmptyUpdateRejected ==
    \A r \in Slots :
        LET f == ureqs[r]
        IN  (/\ Finished(f, {"update"})
             /\ f.email = NoText /\ f.password = None /\ f.full_name = NoText
             /\ f.user_id \in DOMAIN usersColl) =>
                f.detail = "No update data provided"

\* No repository call is ever answered 'No update data provided'.
C30_NeverRejectedAsEmpty ==
    last.detail # "No update data provided"

\* An update with no field was answered 200 and stamped the record.
C30_Witness ==
    /\ EmptyUpdateCalled
    /\ last.status = 200
    /\ docs[last.id].updated_at # last.before[last.id].updated_at

====
